---- MODULE Spec2Model ----
(***************************************************************************)
(* PastryJoy back end: the Money value object, the Order, Recipe and       *)
(* Product entities with their cost calculations, and the REST API         *)
(* (authentication, role gate, per-request transaction) over the stored    *)
(* users, ingredients, recipes, products and orders; the mappers between   *)
(* entities and storage models; and pairs of requests whose handlers       *)
(* interleave, each in its own database session.                           *)
(***************************************************************************)
EXTENDS Integers, Sequences, FiniteSets, TLC

(***************************************************************************)
(* Bounds of the model.                                                    *)
(***************************************************************************)
\* number of OrderItem ids an Order entity may hand out (add_item calls)
MaxItemIds == 2

\* largest amount, in whole currency units, handed to the Money operations
MaxAmount == 3

(***************************************************************************)
(* Part 0.  The Money value object (domain/value_objects/money.py).        *)
(*                                                                         *)
(* A Decimal is a fixed-point integer: an amount counts ten-thousandths of *)
(* a currency unit, a multiplier or divisor counts hundredths.  A currency *)
(* is the sequence of the characters of the string.                        *)
(***************************************************************************)
VARIABLES
    mcall       \* the last Money operation: its operands and how it ended

\* Decimal(str(n)) of a whole number n, as an amount and as a multiplier
Units(n) == n * 10000
Times(n) == n * 100

USD == <<"U", "S", "D">>
EUR == <<"E", "U", "R">>

\* an exception leaves the expression without a value
Raised(msg) == [raised |-> TRUE, msg |-> msg]

\* variant of Money that accepts a negative amount
MoneyNoAmountCheck(amount, currency) ==
    IF currency = <<>> THEN Raised("Currency code is required")
    ELSE [raised |-> FALSE, amount |-> amount, currency |-> currency]

\* Money(amount, currency): the dataclass constructor and __post_init__
Money(amount, currency) ==
    IF amount < 0 THEN Raised("Money amount cannot be negative")
    ELSE IF currency = <<>> THEN Raised("Currency code is required")
    ELSE [raised |-> FALSE, amount |-> amount, currency |-> currency]

\* variant of Money_add that adds whatever the currencies are
Money_add_any_currency(self, other) ==
    Money(self.amount + other.amount, self.currency)

\* Money.__add__
Money_add(self, other) ==
    IF self.currency # other.currency
    THEN Raised("Cannot add money with different currencies")
    ELSE Money(self.amount + other.amount, self.currency)

\* Money.__sub__
Money_sub(self, other) ==
    IF self.currency # other.currency
    THEN Raised("Cannot subtract money with different currencies")
    ELSE IF self.amount - other.amount < 0
    THEN Raised("Subtraction would result in negative money")
    ELSE Money(self.amount - other.amount, self.currency)

\* the quotient of two fixed-point numbers, rounded towards zero
Quotient(a, d) ==
    IF d > 0 THEN IF a >= 0 THEN a \div d ELSE -((-a) \div d)
    ELSE IF a >= 0 THEN -(a \div (-d)) ELSE (-a) \div (-d)

\* variant of Money_mul that divides by the multiplier
Money_mul_inverse(self, multiplier) ==
    IF multiplier = 0 THEN Money(self.amount, self.currency)
    ELSE Money(Quotient(self.amount * 100, multiplier), self.currency)

\* Money.__mul__: amount * Decimal(str(multiplier))
Money_mul(self, multiplier) ==
    Money(Quotient(self.amount * multiplier, 100), self.currency)

\* Money.__truediv__: amount / Decimal(str(divisor))
Money_truediv(self, divisor) ==
    IF divisor = 0 THEN Raised("Cannot divide money by zero")
    ELSE Money(Quotient(self.amount * 100, divisor), self.currency)

\* the arguments the operations are called with: amounts (one of them
\* negative), currency strings (one of them empty) and numbers
Amounts == {Units(n) : n \in (-1)..MaxAmount}
Currencies == {<<>>, <<"U", "S">>, USD, EUR, <<"E", "U", "R", "O">>, <<"8", "4", "0">>}
Numbers == {Times(-2), 0, 50, Times(2)}
MoneyValues ==
    {m \in {Money(a, c) : a \in Amounts, c \in Currencies} : ~m.raised}

NoMoneyCall == [op |-> "none"]

\* one call of an operation of Money
MoneyNew(amount, currency) ==
    mcall' = [op |-> "Money", amount |-> amount, currency |-> currency,
              result |-> Money(amount, currency)]
MoneyAdd(self, other) ==
    mcall' = [op |-> "add", self |-> self, other |-> other,
              result |-> Money_add(self, other)]
MoneySub(self, other) ==
    mcall' = [op |-> "sub", self |-> self, other |-> other,
              result |-> Money_sub(self, other)]
MoneyMul(self, multiplier) ==
    mcall' = [op |-> "mul", self |-> self, other |-> multiplier,
              result |-> Money_mul(self, multiplier)]
MoneyDiv(self, divisor) ==
    mcall' = [op |-> "truediv", self |-> self, other |-> divisor,
              result |-> Money_truediv(self, divisor)]

(***************************************************************************)
(* Part 1.  The Order entity (domain/entities/order.py).                   *)
(***************************************************************************)
VARIABLES
    ostatus,    \* Order.status
    oitems,     \* Order.items: sequence of OrderItem
    onext,      \* number of OrderItem ids handed out so far
    ocall       \* the last method called on the entity and how it ended

ovars == <<ostatus, oitems, onext, ocall>>

OrderStatus == {"pending", "confirmed", "in_progress", "completed", "cancelled"}

\* inputs of add_item: product ids, quantities (one of them not positive)
\* and unit price amounts
EntityProductIds == {1, 2}
EntityQuantities == {0, 1, 2}
EntityPrices == {Money(0, USD), Money(Units(5), USD)}

NoCall == [method |-> "new", raised |-> FALSE, msg |-> ""]

\* OrderItem.__post_init__: the quantity must be positive
OrderItemValid(quantity) == quantity > 0

\* Order.add_item: builds the OrderItem (which validates) and appends it
add_item(product_id, quantity, unit_price) ==
    /\ onext < MaxItemIds
    /\ IF OrderItemValid(quantity)
       THEN /\ oitems' = Append(oitems, [id |-> onext + 1,
                                         product_id |-> product_id,
                                         quantity |-> quantity,
                                         unit_price |-> unit_price])
            /\ onext' = onext + 1
            /\ ocall' = [method |-> "add_item", raised |-> FALSE, msg |-> ""]
       ELSE /\ UNCHANGED <<oitems, onext>>
            /\ ocall' = [method |-> "add_item", raised |-> TRUE,
                         msg |-> "Quantity must be positive"]
    /\ UNCHANGED ostatus

\* Order.remove_item: keeps the items whose id differs
remove_item(item_id) ==
    /\ oitems' = SelectSeq(oitems, LAMBDA item : item.id # item_id)
    /\ ocall' = [method |-> "remove_item", raised |-> FALSE, msg |-> ""]
    /\ UNCHANGED <<ostatus, onext>>

\* variant of ConfirmError that looks at the items only
ConfirmErrorAnyStatus(status, items) ==
    IF Len(items) = 0 THEN "Cannot confirm order without items"
    ELSE ""

\* variant of ConfirmError without the item check
ConfirmErrorNoItemCheck(status, items) ==
    IF status # "pending" THEN "Only pending orders can be confirmed"
    ELSE ""

\* the guard of Order.confirm: "" when the call goes through, else the
\* message of the ValueError
ConfirmError(status, items) ==
    IF status # "pending" THEN "Only pending orders can be confirmed"
    ELSE IF Len(items) = 0 THEN "Cannot confirm order without items"
    ELSE ""

\* Order.confirm
confirm ==
    LET err == ConfirmError(ostatus, oitems) IN
    /\ IF err = ""
       THEN ostatus' = "confirmed"
       ELSE ostatus' = ostatus
    /\ ocall' = [method |-> "confirm", raised |-> (err # ""), msg |-> err]
    /\ UNCHANGED <<oitems, onext>>

\* variant of CancelError that lets a completed order be cancelled
CancelErrorNoCompletedCheck(status) ==
    IF status = "cancelled" THEN "Order is already cancelled"
    ELSE ""

\* the guard of Order.cancel
CancelError(status) ==
    IF status = "completed" THEN "Cannot cancel completed orders"
    ELSE IF status = "cancelled" THEN "Order is already cancelled"
    ELSE ""

\* Order.cancel
cancel ==
    LET err == CancelError(ostatus) IN
    /\ IF err = ""
       THEN ostatus' = "cancelled"
       ELSE ostatus' = ostatus
    /\ ocall' = [method |-> "cancel", raised |-> (err # ""), msg |-> err]
    /\ UNCHANGED <<oitems, onext>>

\* OrderItem.calculate_total: unit_price * quantity
OrderItem_calculate_total(item) == Money_mul(item.unit_price, Times(item.quantity))

\* the loop of Order.calculate_total: total = total + item.calculate_total();
\* an exception ends it
RECURSIVE TotalOfItems(_, _)
TotalOfItems(items, total) ==
    IF items = <<>> \/ total.raised THEN total
    ELSE LET line == OrderItem_calculate_total(Head(items))
         IN  TotalOfItems(Tail(items),
                          IF line.raised THEN line ELSE Money_add(total, line))

\* variant of Order_calculate_total that adds the unit prices up
RECURSIVE Order_calculate_total_of_prices(_)
Order_calculate_total_of_prices(items) ==
    IF items = <<>> THEN Money(0, USD)
    ELSE Money_add(Head(items).unit_price,
                   Order_calculate_total_of_prices(Tail(items)))

\* Order.calculate_total (as a function of Order.items)
Order_calculate_total(items) ==
    IF Len(items) = 0 THEN Money(0, USD)
    ELSE TotalOfItems(items, Money(0, USD))

\* a call of Order.calculate_total
calculate_total ==
    LET total == Order_calculate_total(oitems) IN
    /\ ocall' = [method |-> "calculate_total", raised |-> total.raised,
                 msg |-> IF total.raised THEN total.msg ELSE "",
                 total |-> total]
    /\ UNCHANGED <<ostatus, oitems, onext>>

(***************************************************************************)
(* Part 1b.  The Recipe and Product entities (domain/entities/recipe.py,   *)
(* recipe_ingredient.py, product.py).                                      *)
(***************************************************************************)
VARIABLES
    ringredients,   \* Recipe.ingredients: sequence of RecipeIngredient
    rcall,          \* the last method called on the recipe, its arguments
                    \* (and the quantity it replaced) and how it ended
    product,        \* the Product: recipes, fixed costs and percentages
    pcall,          \* the last method called on the product and how it ended
    mapped,         \* the last entity taken through a mapper: the entity, its
                    \* storage representation and the entity read back
    work            \* per concurrent request: how far its handler has come,
                    \* and what its session holds

rvars == <<ringredients, rcall>>
pvars == <<product, pcall>>
xvars == <<mapped, work>>
dvars == <<mcall, ringredients, rcall, product, pcall, xvars>>

\* entries a recipe, and recipes a product, may hold
MaxRecipeIngredients == 2
MaxProductRecipes == 2

\* inputs of the Recipe methods: ingredient ids, quantities (two of them
\* not positive) and current costs per unit
IngredientIds == {1, 2}
RecipeQuantities == {Times(-1), 0, 50, Times(1), Times(2)}
UnitCosts == {Money(0, USD), Money(Units(1), USD), Money(Units(3), USD)}
\* a dict of Money by id: a function on the ids that have a cost
CostMaps(keys, costs) == UNION {[present -> costs] : present \in SUBSET keys}

\* RecipeIngredient.__post_init__ and ProductRecipe.__post_init__
QuantityError(quantity) ==
    IF quantity <= 0 THEN "Quantity must be positive" ELSE ""

\* Recipe.add_ingredient: builds the RecipeIngredient (which validates)
\* and appends it
add_ingredient(ingredient_id, quantity) ==
    LET err == QuantityError(quantity) IN
    /\ Len(ringredients) < MaxRecipeIngredients
    /\ ringredients' = IF err = ""
                       THEN Append(ringredients, [ingredient_id |-> ingredient_id,
                                                  quantity |-> quantity])
                       ELSE ringredients
    /\ rcall' = [method |-> "add_ingredient", raised |-> (err # ""), msg |-> err,
                 ingredient_id |-> ingredient_id, quantity |-> quantity]

\* the index of the first entry for an ingredient, 0 when there is none
FirstIndex(ingredients, ingredient_id) ==
    LET hits == {i \in 1..Len(ingredients) :
                    ingredients[i].ingredient_id = ingredient_id}
    IN  IF hits = {} THEN 0 ELSE CHOOSE i \in hits : \A j \in hits : i <= j

\* Recipe.update_ingredient_quantity: assigns the quantity of the first
\* entry for the ingredient
update_ingredient_quantity(ingredient_id, quantity) ==
    LET i == FirstIndex(ringredients, ingredient_id) IN
    /\ ringredients' = IF i = 0 THEN ringredients
                       ELSE [ringredients EXCEPT ![i].quantity = quantity]
    /\ rcall' = [method |-> "update_ingredient_quantity", raised |-> (i = 0),
                 msg |-> IF i = 0 THEN "Ingredient not found in recipe" ELSE "",
                 ingredient_id |-> ingredient_id, quantity |-> quantity,
                 replaced |-> IF i = 0 THEN 0 ELSE ringredients[i].quantity]

\* Recipe.remove_ingredient: keeps the entries for the other ingredients
remove_ingredient(ingredient_id) ==
    /\ ringredients' = SelectSeq(ringredients,
                           LAMBDA ing : ing.ingredient_id # ingredient_id)
    /\ rcall' = [method |-> "remove_ingredient", raised |-> FALSE, msg |-> ""]

\* the loop shared by Recipe.calculate_cost and Product.calculate_cost:
\* total = total + (cost * quantity) for the entries whose id has a cost
RECURSIVE CostOfEntries(_, _, _)
CostOfEntries(entries, costs, total) ==
    IF entries = <<>> \/ total.raised THEN total
    ELSE LET entry == Head(entries) IN
         IF entry.id \in DOMAIN costs
         THEN LET part == Money_mul(costs[entry.id], entry.quantity)
              IN  CostOfEntries(Tail(entries), costs,
                                IF part.raised THEN part ELSE Money_add(total, part))
         ELSE CostOfEntries(Tail(entries), costs, total)

\* variant of Recipe_calculate_cost that raises for a missing cost
Recipe_calculate_cost_strict(ingredients, ingredient_costs) ==
    IF \E i \in 1..Len(ingredients) :
          ingredients[i].ingredient_id \notin DOMAIN ingredient_costs
    THEN Raised("No cost for ingredient")
    ELSE CostOfEntries([i \in 1..Len(ingredients) |->
                           [id |-> ingredients[i].ingredient_id,
                            quantity |-> ingredients[i].quantity]],
                       ingredient_costs, Money(0, USD))

\* Recipe.calculate_cost (as a function of Recipe.ingredients)
Recipe_calculate_cost(ingredients, ingredient_costs) ==
    IF Len(ingredients) = 0 THEN Money(0, USD)
    ELSE CostOfEntries([i \in 1..Len(ingredients) |->
                           [id |-> ingredients[i].ingredient_id,
                            quantity |-> ingredients[i].quantity]],
                       ingredient_costs, Money(0, USD))

\* a call of Recipe.calculate_cost
recipe_calculate_cost(ingredient_costs) ==
    LET cost == Recipe_calculate_cost(ringredients, ingredient_costs) IN
    /\ rcall' = [method |-> "calculate_cost", raised |-> cost.raised,
                 msg |-> IF cost.raised THEN cost.msg ELSE "",
                 ingredient_costs |-> ingredient_costs, cost |-> cost]
    /\ UNCHANGED ringredients

\* inputs of the Product methods: recipe ids, quantities (one of them not
\* positive), recipe costs, fixed costs and whole percentages
RecipeIds == {1, 2}
ProductQuantities == {0, Times(1), Times(2)}
RecipeCosts == {Money(Units(1), USD), Money(Units(2), USD)}
FixedCosts == {Money(0, USD), Money(Units(1), USD)}
Percentages == {0, 10, 25}

\* Product.add_recipe: builds the ProductRecipe (which validates) and
\* appends it
add_recipe(recipe_id, quantity) ==
    LET err == QuantityError(quantity) IN
    /\ Len(product.recipes) < MaxProductRecipes
    /\ product' = IF err = ""
                  THEN [product EXCEPT !.recipes =
                           Append(@, [recipe_id |-> recipe_id,
                                      quantity |-> quantity])]
                  ELSE product
    /\ pcall' = [method |-> "add_recipe", raised |-> (err # ""), msg |-> err]

\* Product.remove_recipe: keeps the entries for the other recipes
remove_recipe(recipe_id) ==
    /\ product' = [product EXCEPT !.recipes =
                      SelectSeq(@, LAMBDA rec : rec.recipe_id # recipe_id)]
    /\ pcall' = [method |-> "remove_recipe", raised |-> FALSE, msg |-> ""]

\* cost * (Decimal("1") + percentage / Decimal("100"))
WithPercentage(cost, percentage) ==
    IF cost.raised THEN cost ELSE Money_mul(cost, Times(1) + percentage)

\* the cost of the recipes plus the fixed costs
BaseCost(p, recipe_costs) ==
    IF Len(p.recipes) = 0 THEN p.fixed_costs
    ELSE LET recipe_total ==
                 CostOfEntries([i \in 1..Len(p.recipes) |->
                                   [id |-> p.recipes[i].recipe_id,
                                    quantity |-> p.recipes[i].quantity]],
                               recipe_costs, Money(0, USD))
         IN  IF recipe_total.raised THEN recipe_total
             ELSE Money_add(recipe_total, p.fixed_costs)

\* variant of Product_calculate_cost that leaves the profit margin out
Product_calculate_cost_no_profit(p, recipe_costs) ==
    WithPercentage(BaseCost(p, recipe_costs), p.variable_costs_percentage)

\* Product.calculate_cost
Product_calculate_cost(p, recipe_costs) ==
    WithPercentage(
        WithPercentage(BaseCost(p, recipe_costs), p.variable_costs_percentage),
        p.profit_margin_percentage)

\* a call of Product.calculate_cost
product_calculate_cost(recipe_costs) ==
    LET cost == Product_calculate_cost(product, recipe_costs) IN
    /\ pcall' = [method |-> "calculate_cost", raised |-> cost.raised,
                 msg |-> IF cost.raised THEN cost.msg ELSE "",
                 recipe_costs |-> recipe_costs, cost |-> cost]
    /\ UNCHANGED product

\* the entities as their constructors leave them
NewRecipe == ringredients = <<>> /\ rcall = NoCall
NewProduct ==
    /\ product = [recipes |-> <<>>, fixed_costs |-> Money(0, USD),
                  variable_costs_percentage |-> 0,
                  profit_margin_percentage |-> 0]
    /\ pcall = NoCall
\* no entity has been taken through a mapper
NoMapping == [kind |-> "none"]
NothingMapped == mapped = NoMapping
\* the requests that run concurrently, none of them begun
Workers == {1, 2}
Resting == [pc |-> "idle"]
NoRequestsRunning == work = [w \in Workers |-> Resting]
NoDomainCalls == mcall = NoMoneyCall /\ NewRecipe /\ NewProduct /\ NothingMapped /\ NoRequestsRunning


(***************************************************************************)
(* Part 2.  The REST API.                                                  *)
(***************************************************************************)
VARIABLES
    db,     \* the committed database: one table per entity
    ids,    \* per table, the number of primary keys handed out so far
    now,    \* wall clock, in minutes
    req,    \* the request being answered (Idle when none)
    resp    \* the response to req (Idle when none)

avars == <<db, ids, now, req, resp>>
vars == <<ostatus, oitems, onext, ocall, db, ids, now, req, resp,
          mcall, ringredients, rcall, product, pcall, mapped, work>>

\* primary keys handed out per table
MaxIds == 2
\* committed writes in one behaviour of the whole API, and of the orders API
MaxWrites == 2
MaxOrderWrites == 3
\* minutes the clock advances per tick
TickMinutes == 40

\* Settings.access_token_expire_minutes
access_token_expire_minutes == 30

Idle == [op |-> "idle"]

UserRole == {"admin", "user"}

(* ---- passwords and their hashes ------------------------------------- *)
\* A password is its first 72 bytes (head), what follows them (tail) and
\* its length in characters.
Pw(head, tail, len) == [head |-> head, tail |-> tail, len |-> len]
PwAdmin == Pw("admin-pass", "", 10)
PwAlice == Pw("alice-72-bytes", "x", 73)
PwAliceOther == Pw("alice-72-bytes", "y", 73)
PwBob == Pw("bob-pass", "", 8)
PwShort == Pw("short", "", 5)
PwNew == Pw("new-pass", "", 8)

\* get_password_hash: bcrypt of the password cut to its first 72 bytes
get_password_hash(password) == <<"bcrypt", password.head>>

\* verify_password: bcrypt compares the first 72 bytes only
verify_password(plain_password, hashed_password) ==
    hashed_password = <<"bcrypt", plain_password.head>>

(* ---- stored users ----------------------------------------------------- *)
\* rows of UserModel present when the service starts: the administrator
\* made by create_admin.py, an active user and a deactivated one
AdminRow == [id |-> 1, email |-> "admin@pastryjoy.com", username |-> "admin",
             hashed_password |-> get_password_hash(PwAdmin),
             role |-> "admin", is_active |-> TRUE]
AliceRow == [id |-> 2, email |-> "alice@example.com", username |-> "alice",
             hashed_password |-> get_password_hash(PwAlice),
             role |-> "user", is_active |-> TRUE]
BobRow == [id |-> 3, email |-> "bob@example.com", username |-> "bob",
           hashed_password |-> get_password_hash(PwBob),
           role |-> "user", is_active |-> FALSE]
SeedUsers == {AdminRow, AliceRow, BobRow}
\* the id of a user whose row has been removed
GhostId == Cardinality(SeedUsers) + 1

\* UserRepository.get_by_id / get_by_username / email_exists / username_exists
UserById(d, id) == {u \in d.users : u.id = id}
UserByUsername(d, username) == {u \in d.users : u.username = username}
email_exists(d, email) == \E u \in d.users : u.email = email
username_exists(d, username) == \E u \in d.users : u.username = username

(* ---- tokens ------------------------------------------------------------- *)
NoToken == [kind |-> "none"]
Malformed == [kind |-> "malformed"]
Jwt(sub, role, exp, sig) ==
    [kind |-> "jwt", sub |-> sub, role |-> role, exp |-> exp, sig |-> sig]

\* create_access_token: claims {sub, role, exp}, signed with the secret key
create_access_token(user, t) ==
    Jwt(user.id, user.role, t + access_token_expire_minutes, "valid")

\* the result of a failed decode (Python's None)
NoPayload == [kind |-> "None"]

\* variant of decode_token that skips the expiry check
decode_token_ignoring_exp(token, t) ==
    IF token.kind = "jwt" /\ token.sig = "valid"
    THEN token ELSE NoPayload

\* decode_token: None unless the token parses, carries the service's
\* signature and has not expired (jose rejects exp < now)
decode_token(token, t) ==
    IF token.kind = "jwt" /\ token.sig = "valid" /\ token.exp >= t
    THEN token ELSE NoPayload

\* get_user_id_from_token: the sub claim, or 0 for None
get_user_id_from_token(token, t) ==
    LET payload == decode_token(token, t) IN
    IF payload.kind = "None" THEN 0 ELSE payload.sub

\* the tokens a client may present: none, garbage, tokens signed by the
\* service for the active users with either role claim, for the inactive
\* user and for a user that is gone, and one signed with another key
Tokens ==
    {NoToken, Malformed}
    \cup {Jwt(u.id, role, access_token_expire_minutes, "valid") :
             u \in {AdminRow, AliceRow}, role \in UserRole}
    \cup {Jwt(BobRow.id, "user", access_token_expire_minutes, "valid"),
          Jwt(GhostId, "user", access_token_expire_minutes, "valid"),
          Jwt(AdminRow.id, "admin", access_token_expire_minutes, "forged")}


(* ---- tables ------------------------------------------------------------- *)
\* ingredients, recipes, products and orders are sequences of rows in
\* insertion order; users is a set of rows
Rows(table) == {table[i] : i \in DOMAIN table}
ById(table, id) == {row \in Rows(table) : row.id = id}
Without(table, id) == SelectSeq(table, LAMBDA row : row.id # id)
Replaced(table, new) ==
    [i \in DOMAIN table |-> IF table[i].id = new.id THEN new ELSE table[i]]
NameTaken(table, name, except_id) ==
    \E row \in Rows(table) : row.name = name /\ row.id # except_id
Min(a, b) == IF a <= b THEN a ELSE b
Reverse(table) == [i \in DOMAIN table |-> table[Len(table) + 1 - i]]
\* OFFSET skip LIMIT limit of a SELECT without ORDER BY: the database returns
\* the rows in an order of its choosing (scan)
Page(table, r) ==
    LET rows == IF r.scan = "forward" THEN table ELSE Reverse(table)
    IN  SubSeq(rows, r.skip + 1, Min(Len(rows), r.skip + r.limit))

EmptyDb == [users |-> SeedUsers, ingredients |-> <<>>, recipes |-> <<>>,
            products |-> <<>>, orders |-> <<>>]

(* ---- responses ------------------------------------------------------------ *)
NoBody == [none |-> TRUE]
Out(status, detail, body, d) ==
    [status |-> status, detail |-> detail, body |-> body, db |-> d]

\* variant of get_db that commits whatever the handler did
get_db_always_commit(d, out) == out.db

\* get_db: commit when the handler returns, roll back when it raises
get_db(d, out) == IF out.status >= 400 THEN d ELSE out.db

(* ---- authentication and the admin gate ------------------------------------ *)
NoUser == [id |-> 0, role |-> "none", is_active |-> FALSE]
AuthFail(status, detail) == [status |-> status, detail |-> detail, user |-> NoUser]

\* oauth2_scheme + get_current_user
get_current_user(d, token, t) ==
    IF token.kind = "none" THEN AuthFail(401, "Not authenticated")
    ELSE LET user_id == get_user_id_from_token(token, t) IN
         IF user_id = 0
         THEN AuthFail(401, "Invalid authentication credentials")
         ELSE LET found == UserById(d, user_id) IN
              IF found = {} \/ (\E u \in found : ~u.is_active)
              THEN AuthFail(401, "User not found or inactive")
              ELSE [status |-> 200, detail |-> "",
                    user |-> CHOOSE u \in found : TRUE]

\* User.is_admin
is_admin(user) == user.role = "admin"

\* require_admin
require_admin(d, token, t) ==
    LET current == get_current_user(d, token, t) IN
    IF current.status # 200 THEN current
    ELSE IF ~is_admin(current.user)
         THEN AuthFail(403, "Admin access required")
         ELSE current


(* ---- routes --------------------------------------------------------------- *)
\* the router each handler is declared on
Router(op) ==
    CASE op \in {"register", "login", "get_current_user_info"} -> "auth"
      [] op \in {"create_ingredient", "list_ingredients", "get_ingredient",
                 "update_ingredient", "delete_ingredient"} -> "ingredients"
      [] op \in {"create_recipe", "list_recipes", "get_recipe",
                 "update_recipe", "delete_recipe"} -> "recipes"
      [] op \in {"create_product", "list_products", "get_product",
                 "update_product", "delete_product"} -> "products"
      [] op \in {"create_order", "list_orders", "get_order",
                 "update_order_status", "delete_order"} -> "orders"
      [] op \in {"get_user_settings", "update_user_settings"} -> "users"

\* the routers main.py includes in the application
IncludedRouters == {"auth", "ingredients", "recipes", "products", "orders"}

\* variant of Dependency in which delete_order only asks for a logged-in user
DependencyOpenDelete(op) ==
    CASE op \in {"register", "login"} -> "public"
      [] op \in {"create_ingredient", "update_ingredient", "delete_ingredient",
                 "create_recipe", "update_recipe", "delete_recipe",
                 "create_product", "update_product", "delete_product",
                 "update_order_status"} -> "require_admin"
      [] OTHER -> "get_current_user"

\* the Depends(...) each handler declares for its caller
Dependency(op) ==
    CASE op \in {"register", "login"} -> "public"
      [] op \in {"create_ingredient", "update_ingredient", "delete_ingredient",
                 "create_recipe", "update_recipe", "delete_recipe",
                 "create_product", "update_product", "delete_product",
                 "update_order_status", "delete_order"} -> "require_admin"
      [] OTHER -> "get_current_user"

\* the dependency of a route, resolved for a request
Authorize(op, d, token, t) ==
    CASE Dependency(op) = "public" ->
            [status |-> 200, detail |-> "", user |-> NoUser]
      [] Dependency(op) = "get_current_user" -> get_current_user(d, token, t)
      [] Dependency(op) = "require_admin" -> require_admin(d, token, t)

(* ---- request bodies (pydantic) ---------------------------------------------- *)
NoChange == "<unset>"
\* variant of Blank that lets a name of spaces pass
BlankOnlyEmpty(name) == name = ""
\* the names Ingredient, Recipe and Product refuse: not name, or
\* not name.strip()
Blank(name) == name \in {"", " "}
MeasurementUnit == {"kg", "g", "l", "ml", "unit", "tbsp", "tsp", "cup"}
ValidEmails == {"admin@pastryjoy.com", "alice@example.com", "new@example.com",
                "ann@example.com"}

\* the request DTO of each route: 422 when it does not validate
BodyValid(r) ==
    CASE r.op = "register" ->
            /\ r.email \in ValidEmails
            /\ Len(r.username) >= 3 /\ Len(r.username) <= 50
            /\ r.password.len >= 8 /\ r.password.len <= 128
      [] r.op = "create_ingredient" -> r.name # "" /\ r.unit \in MeasurementUnit
      [] r.op = "update_ingredient" ->
            /\ r.name # ""
            /\ r.unit \in MeasurementUnit \cup {NoChange}
      [] r.op \in {"create_recipe", "create_product"} ->
            /\ r.name # ""
            /\ \A i \in DOMAIN r.entries : r.entries[i].quantity > 0
      [] r.op \in {"update_recipe", "update_product"} -> r.name # ""
      [] r.op = "create_order" ->
            /\ r.customer_name # ""
            /\ r.customer_email \in ValidEmails
            /\ Len(r.items) >= 1
            /\ \A i \in DOMAIN r.items :
                  r.items[i].quantity > 0 /\ r.items[i].unit_price >= 0
      [] r.op = "update_order_status" -> r.status \in OrderStatus
      [] OTHER -> TRUE


(* ---- handlers --------------------------------------------------------------- *)
\* Each handler maps the session's view of the database d and the request r
\* to its response and to the database as the session has it when the
\* handler ends; fresh is the primary key uuid4 would hand out.
ServerError(d) == Out(500, "Internal Server Error", NoBody, d)
NotFound(what, d) == Out(404, what, NoBody, d)

\* the keyword arguments RegisterUserUseCase.execute passes to UserResponseDTO
RegisterResponseArgs ==
    {"id", "email", "username", "role", "is_active", "full_name", "created_at"}
\* the fields UserResponseDTO declares without a default
UserResponseDTO == {"id", "email", "username", "role", "is_active",
                    "full_name", "settings", "created_at"}
\* the attributes of the User entity (BaseEntity + User)
UserAttributes == {"id", "created_at", "updated_at", "email", "username",
                   "hashed_password", "role", "is_active", "full_name"}

\* variant of register that stores the new user as an administrator and
\* answers with it
register_as_admin(d, r, fresh) ==
    IF email_exists(d, r.email)
    THEN Out(400, "Email already registered", NoBody, d)
    ELSE IF username_exists(d, r.username)
    THEN Out(400, "Username already taken", NoBody, d)
    ELSE LET user == [id |-> fresh, email |-> r.email, username |-> r.username,
                      hashed_password |-> get_password_hash(r.password),
                      role |-> "admin", is_active |-> TRUE]
         IN  Out(201, "", user, [d EXCEPT !.users = @ \cup {user}])

\* variant of register without the email check
register_without_email_check(d, r, fresh) ==
    IF username_exists(d, r.username)
    THEN Out(400, "Username already taken", NoBody, d)
    ELSE Out(400, "validation error for UserResponseDTO", NoBody, d)

\* RegisterUserUseCase.execute, as called by the register route
register(d, r, fresh) ==
    IF email_exists(d, r.email)
    THEN Out(400, "Email already registered", NoBody, d)
    ELSE IF username_exists(d, r.username)
    THEN Out(400, "Username already taken", NoBody, d)
    ELSE LET user == [id |-> fresh, email |-> r.email, username |-> r.username,
                      hashed_password |-> get_password_hash(r.password),
                      role |-> "user", is_active |-> TRUE]
             created == [d EXCEPT !.users = @ \cup {user}]
         IN  IF UserResponseDTO \subseteq RegisterResponseArgs
             THEN Out(201, "", user, created)
             ELSE \* pydantic's ValidationError is a ValueError: the route
                  \* turns it into a 400
                  Out(400, "validation error for UserResponseDTO", NoBody, created)

\* variant of login without the is_active check
login_any_user(d, r, t) ==
    LET found == UserByUsername(d, r.username) IN
    IF found = {} THEN Out(401, "Invalid credentials", NoBody, d)
    ELSE LET user == CHOOSE u \in found : TRUE IN
         IF ~verify_password(r.password, user.hashed_password)
         THEN Out(401, "Invalid credentials", NoBody, d)
         ELSE Out(200, "", create_access_token(user, t), d)

\* LoginUserUseCase.execute, as called by the login route
login(d, r, t) ==
    LET found == UserByUsername(d, r.username) IN
    IF found = {} THEN Out(401, "Invalid credentials", NoBody, d)
    ELSE LET user == CHOOSE u \in found : TRUE IN
         IF ~verify_password(r.password, user.hashed_password)
         THEN Out(401, "Invalid credentials", NoBody, d)
         ELSE IF ~user.is_active
         THEN Out(401, "User account is inactive", NoBody, d)
         ELSE Out(200, "", create_access_token(user, t), d)

\* get_current_user_info: reads current_user.settings
get_current_user_info(d, user) ==
    IF "settings" \in UserAttributes
    THEN Out(200, "", user, d)
    ELSE ServerError(d)

\* create_ingredient
create_ingredient(d, r, fresh) ==
    IF Blank(r.name) THEN ServerError(d)
    ELSE IF NameTaken(d.ingredients, r.name, 0)
    THEN Out(409, "Ingredient already exists", NoBody, d)
    ELSE LET row == [id |-> fresh, name |-> r.name, unit |-> r.unit] IN
         Out(201, "", row, [d EXCEPT !.ingredients = Append(@, row)])

\* list_ingredients
list_ingredients(d, r) == Out(200, "", Page(d.ingredients, r), d)

\* get_ingredient
get_ingredient(d, r) ==
    LET found == ById(d.ingredients, r.id) IN
    IF found = {} THEN NotFound("Ingredient not found", d)
    ELSE Out(200, "", CHOOSE row \in found : TRUE, d)

\* update_ingredient
update_ingredient(d, r) ==
    LET found == ById(d.ingredients, r.id) IN
    IF found = {} THEN NotFound("Ingredient not found", d)
    ELSE LET old == CHOOSE row \in found : TRUE
             new == [old EXCEPT
                        !.name = IF r.name = NoChange THEN @ ELSE r.name,
                        !.unit = IF r.unit = NoChange THEN @ ELSE r.unit]
         IN  IF NameTaken(d.ingredients, new.name, old.id)
             THEN ServerError(d)
             ELSE IF Blank(new.name)
             THEN \* the flush has written the name when
                  \* IngredientMapper.to_entity raises
                  Out(500, "Internal Server Error", NoBody,
                      [d EXCEPT !.ingredients = Replaced(@, new)])
             ELSE Out(200, "", new,
                      [d EXCEPT !.ingredients = Replaced(@, new)])

\* delete_ingredient: the rows of recipe_ingredients that point at the
\* ingredient cannot be detached (ingredient_id is NOT NULL)
delete_ingredient(d, r) ==
    IF ById(d.ingredients, r.id) = {} THEN NotFound("Ingredient not found", d)
    ELSE IF \E rec \in Rows(d.recipes) : \E i \in DOMAIN rec.ingredients :
                rec.ingredients[i].ingredient_id = r.id
    THEN ServerError(d)
    ELSE Out(204, "", NoBody, [d EXCEPT !.ingredients = Without(@, r.id)])

\* create_recipe
create_recipe(d, r, fresh) ==
    IF \/ Blank(r.name)
       \/ NameTaken(d.recipes, r.name, 0)
       \/ \E i \in DOMAIN r.entries :
             ById(d.ingredients, r.entries[i].ingredient_id) = {}
    THEN ServerError(d)
    ELSE LET row == [id |-> fresh, name |-> r.name,
                     instructions |-> r.instructions,
                     ingredients |-> r.entries] IN
         Out(201, "", row, [d EXCEPT !.recipes = Append(@, row)])

\* list_recipes
list_recipes(d, r) == Out(200, "", Page(d.recipes, r), d)

\* get_recipe
get_recipe(d, r) ==
    LET found == ById(d.recipes, r.id) IN
    IF found = {} THEN NotFound("Recipe not found", d)
    ELSE Out(200, "", CHOOSE row \in found : TRUE, d)

\* update_recipe: name and instructions only
update_recipe(d, r) ==
    LET found == ById(d.recipes, r.id) IN
    IF found = {} THEN NotFound("Recipe not found", d)
    ELSE LET old == CHOOSE row \in found : TRUE
             new == [old EXCEPT
                        !.name = IF r.name = NoChange THEN @ ELSE r.name,
                        !.instructions =
                            IF r.instructions = NoChange THEN @
                            ELSE r.instructions]
         IN  IF NameTaken(d.recipes, new.name, old.id) \/ Blank(new.name)
             THEN ServerError(d)
             ELSE Out(200, "", new, [d EXCEPT !.recipes = Replaced(@, new)])

\* delete_recipe: product_recipes rows pointing at it cannot be detached
delete_recipe(d, r) ==
    IF ById(d.recipes, r.id) = {} THEN NotFound("Recipe not found", d)
    ELSE IF \E prod \in Rows(d.products) : \E i \in DOMAIN prod.recipes :
                prod.recipes[i].recipe_id = r.id
    THEN ServerError(d)
    ELSE Out(204, "", NoBody, [d EXCEPT !.recipes = Without(@, r.id)])

\* create_product
create_product(d, r, fresh) ==
    IF \/ Blank(r.name)
       \/ NameTaken(d.products, r.name, 0)
       \/ \E i \in DOMAIN r.entries :
             ById(d.recipes, r.entries[i].recipe_id) = {}
    THEN ServerError(d)
    ELSE LET row == [id |-> fresh, name |-> r.name,
                     fixed_costs |-> r.fixed_costs,
                     variable_costs_percentage |-> r.variable_costs_percentage,
                     profit_margin_percentage |-> r.profit_margin_percentage,
                     recipes |-> r.entries] IN
         Out(201, "", row, [d EXCEPT !.products = Append(@, row)])

\* list_products
list_products(d, r) == Out(200, "", Page(d.products, r), d)

\* get_product
get_product(d, r) ==
    LET found == ById(d.products, r.id) IN
    IF found = {} THEN NotFound("Product not found", d)
    ELSE Out(200, "", CHOOSE row \in found : TRUE, d)

\* update_product: the scalar fields only
\* variant of update_product that gives the order items of the product the
\* new fixed costs as their unit price
update_product_repricing(d, r) ==
    LET found == ById(d.products, r.id)
        line(item) == IF item.product_id = r.id /\ r.fixed_costs.set
                      THEN [item EXCEPT !.unit_price = r.fixed_costs.v]
                      ELSE item
        priced(order) == [order EXCEPT !.items =
                             [i \in DOMAIN order.items |-> line(order.items[i])]]
    IN  IF found = {} THEN NotFound("Product not found", d)
        ELSE LET old == CHOOSE row \in found : TRUE
                 new == [old EXCEPT
                            !.name = IF r.name = NoChange THEN @ ELSE r.name,
                            !.fixed_costs =
                                IF r.fixed_costs.set THEN r.fixed_costs.v ELSE @]
             IN  IF NameTaken(d.products, new.name, old.id) \/ Blank(new.name)
                 THEN ServerError(d)
                 ELSE Out(200, "", new,
                          [d EXCEPT !.products = Replaced(@, new),
                                    !.orders = [k \in DOMAIN d.orders |->
                                                   priced(d.orders[k])]])

update_product(d, r) ==
    LET found == ById(d.products, r.id) IN
    IF found = {} THEN NotFound("Product not found", d)
    ELSE LET old == CHOOSE row \in found : TRUE
             new == [old EXCEPT
                        !.name = IF r.name = NoChange THEN @ ELSE r.name,
                        !.fixed_costs =
                            IF r.fixed_costs.set THEN r.fixed_costs.v ELSE @]
         IN  IF NameTaken(d.products, new.name, old.id) \/ Blank(new.name)
             THEN ServerError(d)
             ELSE Out(200, "", new, [d EXCEPT !.products = Replaced(@, new)])

\* delete_product: order_items rows pointing at it cannot be detached
delete_product(d, r) ==
    IF ById(d.products, r.id) = {} THEN NotFound("Product not found", d)
    ELSE IF \E ord \in Rows(d.orders) : \E i \in DOMAIN ord.items :
                ord.items[i].product_id = r.id
    THEN ServerError(d)
    ELSE Out(204, "", NoBody, [d EXCEPT !.products = Without(@, r.id)])

\* create_order: the caller becomes created_by_user_id; the order and its
\* items are flushed by OrderRepository.create
create_order(d, user, r, fresh) ==
    LET row == [id |-> fresh, customer_name |-> r.customer_name,
                customer_email |-> r.customer_email,
                status |-> "pending", notes |-> "",
                created_by_user_id |-> user.id, items |-> r.items]
        bad == {i \in DOMAIN r.items : ById(d.products, r.items[i].product_id) = {}}
    IN  IF bad = {}
        THEN Out(201, "", row, [d EXCEPT !.orders = Append(@, row)])
        ELSE \* the flush inserts the order and its items one row at a time
             \* and stops at the first item whose product is missing
             LET first == CHOOSE i \in bad : \A j \in bad : i <= j
                 part == [row EXCEPT !.items = SubSeq(r.items, 1, first - 1)]
             IN  Out(500, "Internal Server Error", NoBody,
                     [d EXCEPT !.orders = Append(@, part)])

\* OrderRepository.get_by_user_id, before OFFSET and LIMIT
OrdersOf(d, user_id) ==
    SelectSeq(d.orders, LAMBDA row : row.created_by_user_id = user_id)

\* variant of list_orders that gives every caller the whole table
list_orders_unfiltered(d, user, r) ==
    Out(200, "", Page(d.orders, r), d)

\* list_orders
list_orders(d, user, r) ==
    IF is_admin(user)
    THEN Out(200, "", Page(d.orders, r), d)
    ELSE Out(200, "", Page(OrdersOf(d, user.id), r), d)

\* get_order
get_order(d, user, r) ==
    LET found == ById(d.orders, r.id) IN
    IF found = {} THEN NotFound("Order not found", d)
    ELSE LET order == CHOOSE row \in found : TRUE IN
         IF ~is_admin(user) /\ order.created_by_user_id # user.id
         THEN Out(403, "Access denied", NoBody, d)
         ELSE Out(200, "", order, d)

\* update_order_status: assigns the requested status
update_order_status(d, r) ==
    LET found == ById(d.orders, r.id) IN
    IF found = {} THEN NotFound("Order not found", d)
    ELSE LET old == CHOOSE row \in found : TRUE
             new == [old EXCEPT !.status = r.status]
         IN  Out(200, "", new, [d EXCEPT !.orders = Replaced(@, new)])

\* delete_order: the order goes with its items
delete_order(d, r) ==
    IF ById(d.orders, r.id) = {} THEN NotFound("Order not found", d)
    ELSE Out(204, "", NoBody, [d EXCEPT !.orders = Without(@, r.id)])

\* the total in an order response: OrderMapper.to_entity, then
\* order.calculate_total()
OrderTotal(order) ==
    Order_calculate_total(
        [i \in DOMAIN order.items |->
            [quantity |-> order.items[i].quantity,
             unit_price |-> Money(Units(order.items[i].unit_price), USD)]])

(* ---- dispatch ----------------------------------------------------------------- *)
Handle(d, user, r, t, i) ==
    CASE r.op = "register" -> register(d, r, i.users + 1)
      [] r.op = "login" -> login(d, r, t)
      [] r.op = "get_current_user_info" -> get_current_user_info(d, user)
      [] r.op = "create_ingredient" -> create_ingredient(d, r, i.ingredients + 1)
      [] r.op = "list_ingredients" -> list_ingredients(d, r)
      [] r.op = "get_ingredient" -> get_ingredient(d, r)
      [] r.op = "update_ingredient" -> update_ingredient(d, r)
      [] r.op = "delete_ingredient" -> delete_ingredient(d, r)
      [] r.op = "create_recipe" -> create_recipe(d, r, i.recipes + 1)
      [] r.op = "list_recipes" -> list_recipes(d, r)
      [] r.op = "get_recipe" -> get_recipe(d, r)
      [] r.op = "update_recipe" -> update_recipe(d, r)
      [] r.op = "delete_recipe" -> delete_recipe(d, r)
      [] r.op = "create_product" -> create_product(d, r, i.products + 1)
      [] r.op = "list_products" -> list_products(d, r)
      [] r.op = "get_product" -> get_product(d, r)
      [] r.op = "update_product" -> update_product(d, r)
      [] r.op = "delete_product" -> delete_product(d, r)
      [] r.op = "create_order" -> create_order(d, user, r, i.orders + 1)
      [] r.op = "list_orders" -> list_orders(d, user, r)
      [] r.op = "get_order" -> get_order(d, user, r)
      [] r.op = "update_order_status" -> update_order_status(d, r)
      [] r.op = "delete_order" -> delete_order(d, r)

\* one request through the application: routing, the route's dependency,
\* validation of the body, then the handler
Respond(d, r, t, i) ==
    IF Router(r.op) \notin IncludedRouters
    THEN Out(404, "Not Found", NoBody, d)
    ELSE LET auth == Authorize(r.op, d, r.token, t) IN
         IF auth.status # 200
         THEN Out(auth.status, auth.detail, NoBody, d)
         ELSE IF ~BodyValid(r)
         THEN Out(422, "Unprocessable Entity", NoBody, d)
         ELSE Handle(d, auth.user, r, t, i)

\* the primary keys in use after a commit
IdsAfter(i, d) ==
    LET top(table, n) == IF \E row \in Rows(table) : row.id > n THEN n + 1 ELSE n
    IN  [i EXCEPT !.ingredients = top(d.ingredients, @),
                  !.recipes = top(d.recipes, @),
                  !.products = top(d.products, @),
                  !.orders = top(d.orders, @),
                  !.users = IF \E u \in d.users : u.id > @ THEN @ + 1 ELSE @]

\* the primary keys a table hands out in the model
IdsLimit(k) == IF k = "users" THEN GhostId + 1 ELSE MaxIds

\* The service answers request r: the handler runs in its own session and
\* get_db commits or rolls back.
Serve(r, budget) ==
    LET out == Respond(db, r, now, ids)
        stored == get_db(db, out)
    IN  /\ resp = Idle
        /\ stored # db => ids.writes < budget
        /\ \A k \in DOMAIN ids : k # "writes" => IdsAfter(ids, stored)[k] <= IdsLimit(k)
        /\ db' = stored
        /\ ids' = IF stored = db THEN ids
                  ELSE [IdsAfter(ids, stored) EXCEPT !.writes = @ + 1]
        /\ req' = r
        /\ resp' = [status |-> out.status, detail |-> out.detail,
                    body |-> out.body]
        /\ UNCHANGED <<now, ovars, dvars>>

\* the client has the response; the next request may come
Deliver ==
    /\ resp # Idle
    /\ req' = Idle /\ resp' = Idle
    /\ UNCHANGED <<db, ids, now, ovars, dvars>>

\* time passes, until the tokens issued at the start have expired
Tick ==
    /\ resp = Idle
    /\ now <= access_token_expire_minutes
    /\ now' = now + TickMinutes
    /\ UNCHANGED <<db, ids, req, resp, ovars, dvars>>

(* ---- requests ----------------------------------------------------------------- *)
AdminToken == create_access_token(AdminRow, 0)
AliceToken == create_access_token(AliceRow, 0)

\* requests are tried with every token on one body (plain), and with the
\* tokens of the callers the route may serve on every body
Mix(op, callers, bodies, plain) ==
    {[b EXCEPT !.op = op, !.token = tok] : b \in {plain}, tok \in Tokens}
    \cup {[b EXCEPT !.op = op, !.token = tok] : b \in bodies, tok \in callers}

Base == [op |-> "", token |-> NoToken]
Ext(r, extra) == [k \in DOMAIN r \cup DOMAIN extra |->
                     IF k \in DOMAIN extra THEN extra[k] ELSE r[k]]

\* path parameters: the ids a table can have handed out
PathIds == 1..MaxIds
IdBodies == {Ext(Base, [id |-> n]) : n \in PathIds}
\* query parameters skip and limit, and the order in which the database
\* returns the rows (the queries have no ORDER BY)
ScanOrders == {"forward", "backward"}
Pages == {[skip |-> 0, limit |-> 100], [skip |-> 1, limit |-> 1]}
PageBodies == {Ext(Base, Ext(pg, [scan |-> o])) : pg \in Pages, o \in ScanOrders}
DefaultPage == Ext(Base, [skip |-> 0, limit |-> 100, scan |-> "forward"])
Unset == [set |-> FALSE]
Set(v) == [set |-> TRUE, v |-> v]

CallRegister(budget) ==
    \E email \in {"admin@pastryjoy.com", "new@example.com", "not-an-email"},
       username \in {"alice", "newbie", "ab"},
       password \in {PwNew, PwShort} :
        Serve([op |-> "register", token |-> NoToken, email |-> email,
               username |-> username, password |-> password], budget)

CallLogin(budget) ==
    \E username \in {"admin", "alice", "bob", "nobody"},
       password \in {PwAdmin, PwAlice, PwAliceOther, PwBob} :
        Serve([op |-> "login", token |-> NoToken, username |-> username,
               password |-> password], budget)

\* bearer tokens for GET /api/auth/me: any of Tokens, or a token that a
\* login at this instant returns
CallMe(budget) ==
    \E tok \in Tokens \cup {create_access_token(u, now) : u \in SeedUsers} :
        Serve([op |-> "get_current_user_info", token |-> tok], budget)

CallCreateIngredient(budget) ==
    \E r \in Mix("create_ingredient", {AdminToken},
                 {Ext(Base, [name |-> "sugar", unit |-> "g"]),
                  Ext(Base, [name |-> "flour", unit |-> "cups"])},
                 Ext(Base, [name |-> "flour", unit |-> "g"])) : Serve(r, budget)
CallListIngredients(budget) ==
    \E r \in Mix("list_ingredients", {AliceToken}, PageBodies, DefaultPage) :
        Serve(r, budget)
CallGetIngredient(budget) ==
    \E r \in Mix("get_ingredient", {AliceToken}, IdBodies, Ext(Base, [id |-> 1])) :
        Serve(r, budget)
CallUpdateIngredient(budget) ==
    \E r \in Mix("update_ingredient", {AdminToken},
                 {Ext(Base, [id |-> n, name |-> "sugar", unit |-> u]) :
                     n \in PathIds, u \in {NoChange, "kg"}},
                 Ext(Base, [id |-> 1, name |-> NoChange, unit |-> "kg"])) :
        Serve(r, budget)
CallDeleteIngredient(budget) ==
    \E r \in Mix("delete_ingredient", {AdminToken}, IdBodies, Ext(Base, [id |-> 1])) :
        Serve(r, budget)

CallCreateRecipe(budget) ==
    \E r \in Mix("create_recipe", {AdminToken},
                 {Ext(Base, [name |-> "icing", instructions |-> "",
                             entries |-> <<[ingredient_id |-> 1, quantity |-> 2]>>]),
                  Ext(Base, [name |-> "", instructions |-> "", entries |-> <<>>])},
                 Ext(Base, [name |-> "dough", instructions |-> "", entries |-> <<>>])) :
        Serve(r, budget)
CallListRecipes(budget) ==
    \E r \in Mix("list_recipes", {AliceToken}, PageBodies, DefaultPage) :
        Serve(r, budget)
CallGetRecipe(budget) ==
    \E r \in Mix("get_recipe", {AliceToken}, IdBodies, Ext(Base, [id |-> 1])) :
        Serve(r, budget)
CallUpdateRecipe(budget) ==
    \E r \in Mix("update_recipe", {AdminToken},
                 {Ext(Base, [id |-> n, name |-> NoChange, instructions |-> "mix"]) :
                     n \in PathIds},
                 Ext(Base, [id |-> 1, name |-> "icing",
                            instructions |-> NoChange])) : Serve(r, budget)
CallDeleteRecipe(budget) ==
    \E r \in Mix("delete_recipe", {AdminToken}, IdBodies, Ext(Base, [id |-> 1])) :
        Serve(r, budget)

ProductBody(name, entries) ==
    Ext(Base, [name |-> name, fixed_costs |-> 0, variable_costs_percentage |-> 0,
               profit_margin_percentage |-> 0, entries |-> entries])
CallCreateProduct(budget) ==
    \E r \in Mix("create_product", {AdminToken},
                 {ProductBody("cake", <<[recipe_id |-> 1, quantity |-> 1]>>)},
                 ProductBody("bread", <<>>)) : Serve(r, budget)
CallListProducts(budget) ==
    \E r \in Mix("list_products", {AliceToken}, PageBodies, DefaultPage) :
        Serve(r, budget)
CallGetProduct(budget) ==
    \E r \in Mix("get_product", {AliceToken}, IdBodies, Ext(Base, [id |-> 1])) :
        Serve(r, budget)
CallUpdateProduct(budget) ==
    \E r \in Mix("update_product", {AdminToken},
                 {Ext(Base, [id |-> n, name |-> NoChange, fixed_costs |-> Set(10)]) :
                     n \in PathIds},
                 Ext(Base, [id |-> 1, name |-> "cake", fixed_costs |-> Unset])) :
        Serve(r, budget)
CallDeleteProduct(budget) ==
    \E r \in Mix("delete_product", {AdminToken}, IdBodies, Ext(Base, [id |-> 1])) :
        Serve(r, budget)

\* order lines: two of product 1, and one of the product with the last id
LineOne == [product_id |-> 1, quantity |-> 2, unit_price |-> 5]
LineTwo == [product_id |-> 1, quantity |-> 1, unit_price |-> 3]
LineGone == [product_id |-> MaxIds, quantity |-> 1, unit_price |-> 3]
OrderBody(items) ==
    Ext(Base, [customer_name |-> "Ann", customer_email |-> "ann@example.com",
               items |-> items])
CallCreateOrder(budget) ==
    \E r \in Mix("create_order", {AdminToken, AliceToken},
                 {OrderBody(<<LineOne, LineTwo>>), OrderBody(<<LineOne, LineGone>>),
                  OrderBody(<<>>)},
                 OrderBody(<<LineOne>>)) : Serve(r, budget)
CallListOrders(budget) ==
    \E r \in Mix("list_orders", {AdminToken, AliceToken}, PageBodies, DefaultPage) :
        Serve(r, budget)
CallGetOrder(budget) ==
    \E r \in Mix("get_order", {AdminToken, AliceToken}, IdBodies,
                 Ext(Base, [id |-> 1])) : Serve(r, budget)
CallUpdateOrderStatus(budget) ==
    \E r \in Mix("update_order_status", {AdminToken},
                 {Ext(Base, [id |-> n, status |-> st]) :
                     n \in PathIds, st \in OrderStatus \cup {"shipped"}},
                 Ext(Base, [id |-> 1, status |-> "confirmed"])) : Serve(r, budget)
CallDeleteOrder(budget) ==
    \E r \in Mix("delete_order", {AdminToken}, IdBodies, Ext(Base, [id |-> 1])) :
        Serve(r, budget)
CallGetUserSettings(budget) ==
    \E tok \in {NoToken, AliceToken} :
        Serve([op |-> "get_user_settings", token |-> tok], budget)
CallUpdateUserSettings(budget) ==
    \E tok \in {NoToken, AliceToken} :
        Serve([op |-> "update_user_settings", token |-> tok,
               preferred_language |-> "es"], budget)

(***************************************************************************)
(* Part 2b.  The mappers between entities and their storage models         *)
(* (infrastructure/database/mappers).                                      *)
(***************************************************************************)
\* Python's None
None == "None"

\* a member of an enumeration has the value the storage model keeps;
\* Enum(value) is the member with that value
Members(enum, values) == {[enum |-> enum, value |-> v] : v \in values}
MeasurementUnits == Members("MeasurementUnit", MeasurementUnit)
UserRoles == Members("UserRole", UserRole)
OrderStatuses == Members("OrderStatus", OrderStatus)
EnumOf(members, value) == CHOOSE m \in members : m.value = value

\* str(Decimal) and Decimal(str), for the non-negative amounts the entities
\* hold (in ten-thousandths): the digits, most significant first
DigitChars == <<"0", "1", "2", "3", "4", "5", "6", "7", "8", "9">>
RECURSIVE DecimalStr(_)
DecimalStr(n) ==
    IF n < 10 THEN <<DigitChars[n + 1]>>
    ELSE Append(DecimalStr(n \div 10), DigitChars[(n % 10) + 1])
RECURSIVE DecimalOfStr(_)
DecimalOfStr(s) ==
    IF s = <<>> THEN 0
    ELSE DecimalOfStr(SubSeq(s, 1, Len(s) - 1)) * 10
         + ((CHOOSE i \in 1..10 : DigitChars[i] = s[Len(s)]) - 1)

\* IngredientMapper
IngredientMapper_to_entity(model) ==
    [id |-> model.id, name |-> model.name,
     unit |-> EnumOf(MeasurementUnits, model.unit),
     created_at |-> model.created_at, updated_at |-> model.updated_at]
IngredientMapper_to_model(entity) ==
    [id |-> entity.id, name |-> entity.name, unit |-> entity.unit.value,
     created_at |-> entity.created_at, updated_at |-> entity.updated_at]

\* RecipeIngredientMapper and RecipeMapper
RecipeIngredientMapper_to_entity(model) ==
    [id |-> model.id, recipe_id |-> model.recipe_id,
     ingredient_id |-> model.ingredient_id,
     quantity |-> DecimalOfStr(DecimalStr(model.quantity)),
     created_at |-> model.created_at, updated_at |-> model.updated_at]
RecipeIngredientMapper_to_model(entity) ==
    [id |-> entity.id, recipe_id |-> entity.recipe_id,
     ingredient_id |-> entity.ingredient_id, quantity |-> entity.quantity,
     created_at |-> entity.created_at, updated_at |-> entity.updated_at]
RecipeMapper_to_entity(model) ==
    [id |-> model.id, name |-> model.name,
     ingredients |-> [i \in DOMAIN model.ingredients |->
                         RecipeIngredientMapper_to_entity(model.ingredients[i])],
     instructions |-> model.instructions,
     created_at |-> model.created_at, updated_at |-> model.updated_at]
RecipeMapper_to_model(entity) ==
    [id |-> entity.id, name |-> entity.name,
     instructions |-> entity.instructions,
     created_at |-> entity.created_at, updated_at |-> entity.updated_at,
     ingredients |-> [i \in DOMAIN entity.ingredients |->
                         RecipeIngredientMapper_to_model(entity.ingredients[i])]]

\* ProductRecipeMapper and ProductMapper
ProductRecipeMapper_to_entity(model) ==
    [recipe_id |-> model.recipe_id,
     quantity |-> DecimalOfStr(DecimalStr(model.quantity))]
ProductRecipeMapper_to_model(entity, product_id) ==
    [product_id |-> product_id, recipe_id |-> entity.recipe_id,
     quantity |-> entity.quantity]
ProductMapper_to_entity(model) ==
    [id |-> model.id, name |-> model.name,
     recipes |-> [i \in DOMAIN model.recipes |->
                     ProductRecipeMapper_to_entity(model.recipes[i])],
     image_url |-> model.image_url,
     fixed_costs |-> Money(DecimalOfStr(DecimalStr(model.fixed_costs_amount)),
                           model.fixed_costs_currency),
     variable_costs_percentage |->
         DecimalOfStr(DecimalStr(model.variable_costs_percentage)),
     profit_margin_percentage |->
         DecimalOfStr(DecimalStr(model.profit_margin_percentage)),
     created_at |-> model.created_at, updated_at |-> model.updated_at]
ProductMapper_to_model(entity) ==
    [id |-> entity.id, name |-> entity.name, image_url |-> entity.image_url,
     fixed_costs_amount |-> entity.fixed_costs.amount,
     fixed_costs_currency |-> entity.fixed_costs.currency,
     variable_costs_percentage |-> entity.variable_costs_percentage,
     profit_margin_percentage |-> entity.profit_margin_percentage,
     created_at |-> entity.created_at, updated_at |-> entity.updated_at,
     recipes |-> [i \in DOMAIN entity.recipes |->
                     ProductRecipeMapper_to_model(entity.recipes[i], entity.id)]]

\* OrderItemMapper and OrderMapper
OrderItemMapper_to_entity(model) ==
    [id |-> model.id, order_id |-> model.order_id, product_id |-> model.product_id,
     quantity |-> DecimalOfStr(DecimalStr(model.quantity)),
     unit_price |-> Money(DecimalOfStr(DecimalStr(model.unit_price_amount)),
                          model.unit_price_currency),
     created_at |-> model.created_at, updated_at |-> model.updated_at]
OrderItemMapper_to_model(entity) ==
    [id |-> entity.id, order_id |-> entity.order_id,
     product_id |-> entity.product_id, quantity |-> entity.quantity,
     unit_price_amount |-> entity.unit_price.amount,
     unit_price_currency |-> entity.unit_price.currency,
     created_at |-> entity.created_at, updated_at |-> entity.updated_at]
OrderMapper_to_entity(model) ==
    [id |-> model.id, customer_name |-> model.customer_name,
     customer_email |-> model.customer_email,
     items |-> [i \in DOMAIN model.items |-> OrderItemMapper_to_entity(model.items[i])],
     status |-> EnumOf(OrderStatuses, model.status),
     notes |-> IF model.notes \in {None, ""} THEN "" ELSE model.notes,
     created_by_user_id |-> model.created_by_user_id,
     created_at |-> model.created_at, updated_at |-> model.updated_at]
OrderMapper_to_model(entity) ==
    [id |-> entity.id, customer_name |-> entity.customer_name,
     customer_email |-> entity.customer_email, status |-> entity.status.value,
     notes |-> entity.notes, created_by_user_id |-> entity.created_by_user_id,
     created_at |-> entity.created_at, updated_at |-> entity.updated_at,
     items |-> [i \in DOMAIN entity.items |-> OrderItemMapper_to_model(entity.items[i])]]

\* User(**kwargs): the dataclass takes its declared fields and no others
User(kwargs) ==
    IF DOMAIN kwargs \subseteq UserAttributes
    THEN kwargs
    ELSE Raised("TypeError: __init__() got an unexpected keyword argument")

\* UserMapper
UserMapper_to_entity(model) ==
    User([id |-> model.id, email |-> model.email, username |-> model.username,
          hashed_password |-> model.hashed_password,
          role |-> EnumOf(UserRoles, model.role), is_active |-> model.is_active,
          full_name |-> model.full_name,
          created_at |-> model.created_at, updated_at |-> model.updated_at])
UserMapper_to_model(entity) ==
    [id |-> entity.id, email |-> entity.email, username |-> entity.username,
     hashed_password |-> entity.hashed_password, role |-> entity.role.value,
     is_active |-> entity.is_active, full_name |-> entity.full_name,
     created_at |-> entity.created_at, updated_at |-> entity.updated_at]

\* the entities taken through the mappers
MapperIds == 1..2
Instants == {0, 1}
\* the sequences over S of length at most 2
UpToTwo(S) == {<<>>} \cup {<<a>> : a \in S} \cup {<<a, b>> : a \in S, b \in S}
MappedQuantities == {Units(1) \div 2, Units(2)}
IngredientEntities ==
    [id : MapperIds, name : {"flour", "sugar"}, unit : MeasurementUnits,
     created_at : {0}, updated_at : Instants]
RecipeEntities ==
    UNION {[id : {id}, name : {"dough"}, instructions : {None, "knead"},
            ingredients : UpToTwo([id : {1}, recipe_id : {id},
                                   ingredient_id : MapperIds,
                                   quantity : MappedQuantities,
                                   created_at : {0}, updated_at : {0}]),
            created_at : {0}, updated_at : {0}] : id \in MapperIds}
ProductEntities ==
    [id : {1}, name : {"cake"}, image_url : {None, "cake.png"},
     recipes : UpToTwo([recipe_id : MapperIds, quantity : MappedQuantities]),
     fixed_costs : FixedCosts, variable_costs_percentage : {10},
     profit_margin_percentage : {0, 25},
     created_at : {0}, updated_at : {0}]
OrderEntities ==
    [id : {1}, customer_name : {"Ann"}, customer_email : {"ann@example.com"},
     items : UpToTwo([id : {1}, order_id : {1}, product_id : {1},
                      quantity : MappedQuantities, unit_price : EntityPrices,
                      created_at : {0}, updated_at : {0}]),
     status : OrderStatuses, notes : {"", "no nuts"},
     created_by_user_id : {1}, created_at : {0}, updated_at : {0}]
\* the keyword arguments a User is built from: the declared fields, with or
\* without the settings of the user (tests/integration/
\* test_user_repository_settings.py builds User(..., settings=UserSettings(..)))
SupportedLanguage == {"en", "es"}
UserFields ==
    [id : {1}, email : {"ann@example.com"}, username : {"ann", "bob"},
     hashed_password : {"hash"}, role : UserRoles, is_active : BOOLEAN,
     full_name : {None, "Ann"}, created_at : {0}, updated_at : {0}]
WithSettings(fields, language) ==
    [a \in DOMAIN fields \cup {"settings"} |->
        IF a = "settings" THEN [preferred_language |-> language] ELSE fields[a]]
UserKwargs ==
    UserFields \cup {WithSettings(f, l) : f \in UserFields, l \in SupportedLanguage}

\* one entity taken to its storage model and back
IngredientRoundTrip(entity) ==
    mapped' = [kind |-> "Ingredient", entity |-> entity,
               model |-> IngredientMapper_to_model(entity),
               back |-> IngredientMapper_to_entity(IngredientMapper_to_model(entity))]
RecipeRoundTrip(entity) ==
    mapped' = [kind |-> "Recipe", entity |-> entity,
               model |-> RecipeMapper_to_model(entity),
               back |-> RecipeMapper_to_entity(RecipeMapper_to_model(entity))]
ProductRoundTrip(entity) ==
    mapped' = [kind |-> "Product", entity |-> entity,
               model |-> ProductMapper_to_model(entity),
               back |-> ProductMapper_to_entity(ProductMapper_to_model(entity))]
OrderRoundTrip(entity) ==
    mapped' = [kind |-> "Order", entity |-> entity,
               model |-> OrderMapper_to_model(entity),
               back |-> OrderMapper_to_entity(OrderMapper_to_model(entity))]
\* the user the caller describes by kwargs: built, stored, read back
UserRoundTrip(kwargs) ==
    LET entity == User(kwargs) IN
    mapped' = [kind |-> "User", entity |-> kwargs,
               model |-> IF "raised" \in DOMAIN entity THEN entity
                         ELSE UserMapper_to_model(entity),
               back |-> IF "raised" \in DOMAIN entity THEN entity
                        ELSE UserMapper_to_entity(UserMapper_to_model(entity))]

(* ---- specification of the API --------------------------------------------------- *)
FreshIds == [users |-> GhostId, ingredients |-> 0, recipes |-> 0,
             products |-> 0, orders |-> 0, writes |-> 0]
NewOrder == /\ ostatus = "pending" /\ oitems = <<>> /\ onext = 0 /\ ocall = NoCall
NoApiCalls == db = EmptyDb /\ ids = FreshIds /\ now = 0 /\ req = Idle /\ resp = Idle

Init ==
    /\ db = EmptyDb
    /\ ids = FreshIds
    /\ now = 0
    /\ req = Idle /\ resp = Idle
    /\ NewOrder
    /\ NoDomainCalls

Next ==
    \/ CallRegister(MaxWrites) \/ CallLogin(MaxWrites) \/ CallMe(MaxWrites)
    \/ CallCreateIngredient(MaxWrites) \/ CallListIngredients(MaxWrites) \/ CallGetIngredient(MaxWrites)
    \/ CallUpdateIngredient(MaxWrites) \/ CallDeleteIngredient(MaxWrites)
    \/ CallCreateRecipe(MaxWrites) \/ CallListRecipes(MaxWrites) \/ CallGetRecipe(MaxWrites)
    \/ CallUpdateRecipe(MaxWrites) \/ CallDeleteRecipe(MaxWrites)
    \/ CallCreateProduct(MaxWrites) \/ CallListProducts(MaxWrites) \/ CallGetProduct(MaxWrites)
    \/ CallUpdateProduct(MaxWrites) \/ CallDeleteProduct(MaxWrites)
    \/ CallCreateOrder(MaxWrites) \/ CallListOrders(MaxWrites) \/ CallGetOrder(MaxWrites)
    \/ CallUpdateOrderStatus(MaxWrites) \/ CallDeleteOrder(MaxWrites)
    \/ CallGetUserSettings(MaxWrites) \/ CallUpdateUserSettings(MaxWrites)
    \/ Deliver \/ Tick

Spec == Init /\ [][Next]_vars


(* ---- specification of the orders API ---------------------------------------------- *)
\* a database in which an administrator has created one product
BreadRow == [id |-> 1, name |-> "bread", fixed_costs |-> 0,
             variable_costs_percentage |-> 0, profit_margin_percentage |-> 0,
             recipes |-> <<>>]
InitOrders ==
    /\ db = [EmptyDb EXCEPT !.products = <<BreadRow>>]
    /\ ids = [FreshIds EXCEPT !.products = 1]
    /\ now = 0
    /\ req = Idle /\ resp = Idle
    /\ NewOrder
    /\ NoDomainCalls

NextOrders ==
    \/ CallCreateOrder(MaxOrderWrites) \/ CallListOrders(MaxOrderWrites)
    \/ CallGetOrder(MaxOrderWrites) \/ CallUpdateOrderStatus(MaxOrderWrites)
    \/ CallDeleteOrder(MaxOrderWrites)
    \/ Deliver

SpecOrders == InitOrders /\ [][NextOrders]_vars

(* ---- specification of the catalogue next to a stored order --------------------------- *)
\* a database with one product and an order Alice placed for it
AnnOrder == [id |-> 1, customer_name |-> "Ann",
             customer_email |-> "ann@example.com", status |-> "pending",
             notes |-> "", created_by_user_id |-> AliceRow.id,
             items |-> <<LineOne, LineTwo>>]
InitCatalog ==
    /\ db = [EmptyDb EXCEPT !.products = <<BreadRow>>, !.orders = <<AnnOrder>>]
    /\ ids = [FreshIds EXCEPT !.products = 1, !.orders = 1]
    /\ now = 0
    /\ req = Idle /\ resp = Idle
    /\ NewOrder
    /\ NoDomainCalls

NextCatalog ==
    \/ CallCreateIngredient(MaxWrites) \/ CallUpdateIngredient(MaxWrites)
    \/ CallDeleteIngredient(MaxWrites)
    \/ CallCreateRecipe(MaxWrites) \/ CallUpdateRecipe(MaxWrites)
    \/ CallDeleteRecipe(MaxWrites)
    \/ CallCreateProduct(MaxWrites) \/ CallUpdateProduct(MaxWrites)
    \/ CallDeleteProduct(MaxWrites)
    \/ CallUpdateOrderStatus(MaxWrites) \/ CallGetOrder(MaxWrites)
    \/ Deliver

SpecCatalog == InitCatalog /\ [][NextCatalog]_vars

(* ---- specification of the ingredient routes ------------------------------------------ *)
\* names in the bodies: empty, whitespace only, and two proper names
IngredientNames == {"", " ", "flour", "sugar"}
CallCreateIngredientNamed(budget) ==
    \E r \in Mix("create_ingredient", {AdminToken},
                 {Ext(Base, [name |-> n, unit |-> "g"]) : n \in IngredientNames},
                 Ext(Base, [name |-> " ", unit |-> "g"])) : Serve(r, budget)
CallRenameIngredient(budget) ==
    \E r \in Mix("update_ingredient", {AdminToken},
                 {Ext(Base, [id |-> n, name |-> nm, unit |-> NoChange]) :
                     n \in PathIds, nm \in IngredientNames \cup {NoChange}},
                 Ext(Base, [id |-> 1, name |-> " ", unit |-> NoChange])) :
        Serve(r, budget)

NextIngredients ==
    \/ CallCreateIngredientNamed(MaxWrites) \/ CallRenameIngredient(MaxWrites)
    \/ CallGetIngredient(MaxWrites) \/ CallListIngredients(MaxWrites)
    \/ CallDeleteIngredient(MaxWrites)
    \/ Deliver

SpecIngredients == Init /\ [][NextIngredients]_vars

(* ---- specification of the Order entity ---------------------------------------------- *)
\* an Order as the constructor or OrderMapper.to_entity builds it: any
\* status, no item or one
InitOrder ==
    /\ ostatus \in OrderStatus
    /\ \E n \in 0..1 :
          /\ oitems = [k \in 1..n |-> [id |-> k, product_id |-> 1,
                                       quantity |-> 1,
                                       unit_price |-> Money(Units(5), USD)]]
          /\ onext = n
    /\ ocall = NoCall
    /\ NoApiCalls
    /\ NoDomainCalls

NextOrder ==
    \/ \E p \in EntityProductIds, q \in EntityQuantities, u \in EntityPrices :
          add_item(p, q, u) /\ UNCHANGED <<avars, dvars>>
    \/ \E item_id \in 1..(MaxItemIds + 1) : remove_item(item_id) /\ UNCHANGED <<avars, dvars>>
    \/ confirm /\ UNCHANGED <<avars, dvars>>
    \/ cancel /\ UNCHANGED <<avars, dvars>>
    \/ calculate_total /\ UNCHANGED <<avars, dvars>>

SpecOrder == InitOrder /\ [][NextOrder]_vars

\* the Order entity from a new order on: pending, no items
InitNewOrder == NewOrder /\ NoApiCalls /\ NoDomainCalls
SpecNewOrder == InitNewOrder /\ [][NextOrder]_vars

(* ---- specification of the Money value object ------------------------------------------ *)
InitMoney ==
    /\ mcall = NoMoneyCall
    /\ NewRecipe /\ NewProduct /\ NewOrder /\ NoApiCalls /\ NothingMapped /\ NoRequestsRunning

NextMoney ==
    \/ \E amount \in Amounts, currency \in Currencies :
          MoneyNew(amount, currency) /\ UNCHANGED <<xvars, ovars, avars, rvars, pvars>>
    \/ \E self \in MoneyValues, other \in MoneyValues :
          MoneyAdd(self, other) /\ UNCHANGED <<xvars, ovars, avars, rvars, pvars>>
    \/ \E self \in MoneyValues, other \in MoneyValues :
          MoneySub(self, other) /\ UNCHANGED <<xvars, ovars, avars, rvars, pvars>>
    \/ \E self \in MoneyValues, multiplier \in Numbers :
          MoneyMul(self, multiplier) /\ UNCHANGED <<xvars, ovars, avars, rvars, pvars>>
    \/ \E self \in MoneyValues, divisor \in Numbers :
          MoneyDiv(self, divisor) /\ UNCHANGED <<xvars, ovars, avars, rvars, pvars>>

SpecMoney == InitMoney /\ [][NextMoney]_vars

(* ---- specification of the Recipe entity ------------------------------------------------ *)
\* a Recipe as the constructor builds it: no ingredients
InitRecipe ==
    /\ NewRecipe
    /\ mcall = NoMoneyCall /\ NewProduct /\ NewOrder /\ NoApiCalls /\ NothingMapped /\ NoRequestsRunning

NextRecipe ==
    \/ \E ingredient_id \in IngredientIds, quantity \in RecipeQuantities :
          add_ingredient(ingredient_id, quantity)
          /\ UNCHANGED <<xvars, ovars, avars, mcall, pvars>>
    \/ \E ingredient_id \in IngredientIds, quantity \in RecipeQuantities :
          update_ingredient_quantity(ingredient_id, quantity)
          /\ UNCHANGED <<xvars, ovars, avars, mcall, pvars>>
    \/ \E ingredient_id \in IngredientIds :
          remove_ingredient(ingredient_id)
          /\ UNCHANGED <<xvars, ovars, avars, mcall, pvars>>
    \/ \E ingredient_costs \in CostMaps(IngredientIds, UnitCosts) :
          recipe_calculate_cost(ingredient_costs)
          /\ UNCHANGED <<xvars, ovars, avars, mcall, pvars>>

SpecRecipe == InitRecipe /\ [][NextRecipe]_vars

(* ---- specification of the Product entity ----------------------------------------------- *)
\* a Product as the constructor builds it: no recipes, fixed costs and
\* percentages that Product.__post_init__ accepts
InitProduct ==
    /\ \E fixed_costs \in FixedCosts, variable \in Percentages, profit \in Percentages :
          product = [recipes |-> <<>>, fixed_costs |-> fixed_costs,
                     variable_costs_percentage |-> variable,
                     profit_margin_percentage |-> profit]
    /\ pcall = NoCall
    /\ mcall = NoMoneyCall /\ NewRecipe /\ NewOrder /\ NoApiCalls /\ NothingMapped /\ NoRequestsRunning

NextProduct ==
    \/ \E recipe_id \in RecipeIds, quantity \in ProductQuantities :
          add_recipe(recipe_id, quantity)
          /\ UNCHANGED <<xvars, ovars, avars, mcall, rvars>>
    \/ \E recipe_id \in RecipeIds :
          remove_recipe(recipe_id) /\ UNCHANGED <<xvars, ovars, avars, mcall, rvars>>
    \/ \E recipe_costs \in CostMaps(RecipeIds, RecipeCosts) :
          product_calculate_cost(recipe_costs)
          /\ UNCHANGED <<xvars, ovars, avars, mcall, rvars>>

SpecProduct == InitProduct /\ [][NextProduct]_vars

(* ---- specification of the mappers ------------------------------------------------------- *)
InitMappers ==
    /\ NothingMapped /\ NoRequestsRunning
    /\ mcall = NoMoneyCall /\ NewRecipe /\ NewProduct /\ NewOrder /\ NoApiCalls

NextMappers ==
    \/ \E entity \in IngredientEntities :
          IngredientRoundTrip(entity) /\ UNCHANGED <<work, ovars, avars, mcall, rvars, pvars>>
    \/ \E entity \in RecipeEntities :
          RecipeRoundTrip(entity) /\ UNCHANGED <<work, ovars, avars, mcall, rvars, pvars>>
    \/ \E entity \in ProductEntities :
          ProductRoundTrip(entity) /\ UNCHANGED <<work, ovars, avars, mcall, rvars, pvars>>
    \/ \E entity \in OrderEntities :
          OrderRoundTrip(entity) /\ UNCHANGED <<work, ovars, avars, mcall, rvars, pvars>>
    \/ \E kwargs \in UserKwargs :
          UserRoundTrip(kwargs) /\ UNCHANGED <<work, ovars, avars, mcall, rvars, pvars>>

SpecMappers == InitMappers /\ [][NextMappers]_vars

(* ---- specification of the recipe list of a product and the ingredient list of a recipe - *)
\* updates whose body carries the list (ProductUpdateDTO.recipes,
\* RecipeUpdateDTO.ingredients)
SuppliedRecipes ==
    {<<>>, <<[recipe_id |-> 1, quantity |-> 2]>>,
     <<[recipe_id |-> 1, quantity |-> 1], [recipe_id |-> 2, quantity |-> 1]>>}
SuppliedIngredients ==
    {<<>>, <<[ingredient_id |-> 1, quantity |-> 3]>>,
     <<[ingredient_id |-> 1, quantity |-> 2], [ingredient_id |-> 2, quantity |-> 1]>>}
CallUpdateProductRecipes(budget) ==
    \E r \in Mix("update_product", {AdminToken},
                 {Ext(Base, [id |-> n, name |-> NoChange, fixed_costs |-> Unset,
                             entries |-> e]) : n \in PathIds, e \in SuppliedRecipes},
                 Ext(Base, [id |-> 1, name |-> NoChange, fixed_costs |-> Unset,
                            entries |-> <<>>])) : Serve(r, budget)
CallUpdateRecipeIngredients(budget) ==
    \E r \in Mix("update_recipe", {AdminToken},
                 {Ext(Base, [id |-> n, name |-> NoChange, instructions |-> NoChange,
                             entries |-> e]) : n \in PathIds, e \in SuppliedIngredients},
                 Ext(Base, [id |-> 1, name |-> NoChange, instructions |-> NoChange,
                            entries |-> <<>>])) : Serve(r, budget)

NextLists ==
    \/ CallCreateIngredient(MaxWrites) \/ CallCreateRecipe(MaxWrites)
    \/ CallCreateProduct(MaxWrites)
    \/ CallUpdateProductRecipes(MaxWrites) \/ CallUpdateRecipeIngredients(MaxWrites)
    \/ CallGetProduct(MaxWrites) \/ CallGetRecipe(MaxWrites)
    \/ Deliver

SpecLists == Init /\ [][NextLists]_vars

(***************************************************************************)
(* Part 2c.  Requests that run concurrently, each in its own session       *)
(* (get_db), on one database.  A handler is taken one await at a time.     *)
(***************************************************************************)
\* the columns ProductRepository.update assigns (updated_at left out)
ProductColumns == {"name", "fixed_costs", "variable_costs_percentage",
                   "profit_margin_percentage"}
\* the fields a ProductUpdateDTO supplies (is not None)
Supplied(r) ==
    {c \in {"name"} : r.name # NoChange}
    \cup {c \in {"fixed_costs", "variable_costs_percentage"} : r[c].set}
\* update_product, "Update fields": the supplied fields are assigned to the
\* entity that get_by_id returned
AssignSupplied(entity, r) ==
    [entity EXCEPT
        !.name = IF r.name = NoChange THEN @ ELSE r.name,
        !.fixed_costs = IF r.fixed_costs.set THEN r.fixed_costs.v ELSE @,
        !.variable_costs_percentage =
            IF r.variable_costs_percentage.set
            THEN r.variable_costs_percentage.v ELSE @]

\* update_product up to repo.update: repo.get_by_id reads the committed row
\* and the handler assigns the supplied fields
BeginUpdateProduct(w, r) ==
    /\ work[w].pc = "idle"
    /\ LET found == ById(db.products, r.id) IN
       work' = [work EXCEPT ![w] =
                   IF found = {}
                   THEN [pc |-> "done", r |-> r, status |-> 404]
                   ELSE LET row == CHOOSE x \in found : TRUE IN
                        [pc |-> "loaded", r |-> r, seen |-> row,
                         entity |-> AssignSupplied(row, r)]]
    /\ UNCHANGED <<ovars, avars, mcall, rvars, pvars, mapped>>

\* ProductRepository.update: the row is selected again, every column is
\* assigned from the entity and the session is flushed.  The unit of work
\* writes the columns whose value differs from the one the session loaded:
\* the row as the second select finds it, or, when the instance get_by_id
\* loaded is still in the identity map of the session (which holds it
\* weakly), the row as get_by_id saw it.  An UPDATE waits for the row lock
\* of another session that has written the row and not yet committed.
SaveProduct(w) ==
    /\ work[w].pc = "loaded"
    /\ \E loaded \in {work[w].seen} \cup ById(db.products, work[w].r.id) :
          LET entity == work[w].entity
              changed == {c \in ProductColumns : entity[c] # loaded[c]}
          IN  /\ changed # {} =>
                    \A v \in Workers \ {w} :
                       ~(work[v].pc = "flushed" /\ work[v].r.id = work[w].r.id
                         /\ work[v].changed # {})
              /\ work' = [work EXCEPT ![w] =
                             [pc |-> "flushed", r |-> work[w].r,
                              entity |-> entity, changed |-> changed]]
    /\ UNCHANGED <<ovars, avars, mcall, rvars, pvars, mapped>>

\* get_db after the handler has returned: session.commit() makes the
\* written columns of the row visible to the other sessions
CommitProduct(w) ==
    /\ work[w].pc = "flushed"
    /\ LET r == work[w].r
           old == CHOOSE x \in ById(db.products, r.id) : TRUE
           new == [c \in DOMAIN old |->
                      IF c \in work[w].changed THEN work[w].entity[c] ELSE old[c]]
       IN  /\ db' = [db EXCEPT !.products = Replaced(@, new)]
           /\ work' = [work EXCEPT ![w] = [pc |-> "done", r |-> r, status |-> 200]]
    /\ UNCHANGED <<ovars, ids, now, req, resp, mcall, rvars, pvars, mapped>>

\* the update requests of the concurrent callers: each supplies one field,
\* or two
ConcurrentUpdates ==
    {[id |-> 1, name |-> n, fixed_costs |-> f, variable_costs_percentage |-> v] :
        n \in {NoChange, "rye bread"}, f \in {Unset, Set(10)}, v \in {Unset, Set(20)}}

(* ---- specification of two concurrent updates of one product ---------------------------- *)
InitConcurrentUpdates ==
    /\ db = [EmptyDb EXCEPT !.products = <<BreadRow>>]
    /\ ids = [FreshIds EXCEPT !.products = 1]
    /\ now = 0
    /\ req = Idle /\ resp = Idle
    /\ NewOrder
    /\ NoDomainCalls

NextConcurrentUpdates ==
    \/ \E w \in Workers, r \in ConcurrentUpdates : BeginUpdateProduct(w, r)
    \/ \E w \in Workers : SaveProduct(w)
    \/ \E w \in Workers : CommitProduct(w)

SpecConcurrentUpdates == InitConcurrentUpdates /\ [][NextConcurrentUpdates]_vars

(* ---- two concurrent registrations ------------------------------------------------------- *)
\* the user a session has inserted and not yet committed
Inserting(w) == IF work[w].pc = "inserted" THEN {work[w].user} ELSE {}

\* RegisterUserUseCase.execute, first await: email_exists sees the
\* committed users
CheckEmail(w, r) ==
    /\ work[w].pc = "idle"
    /\ work' = [work EXCEPT ![w] =
                   IF email_exists(db, r.email)
                   THEN [pc |-> "done", r |-> r, status |-> 400,
                         detail |-> "Email already registered", created |-> FALSE]
                   ELSE [pc |-> "email_checked", r |-> r]]
    /\ UNCHANGED <<ovars, avars, mcall, rvars, pvars, mapped>>

\* second await: username_exists
CheckUsername(w) ==
    /\ work[w].pc = "email_checked"
    /\ work' = [work EXCEPT ![w] =
                   IF username_exists(db, work[w].r.username)
                   THEN [pc |-> "done", r |-> work[w].r, status |-> 400,
                         detail |-> "Username already taken", created |-> FALSE]
                   ELSE [pc |-> "checked", r |-> work[w].r]]
    /\ UNCHANGED <<ovars, avars, mcall, rvars, pvars, mapped>>

\* UserRepository.create: the INSERT of the flush.  users.email and
\* users.username are unique: the INSERT waits for a session that has
\* inserted the same email or username and not yet ended, and fails with
\* IntegrityError when a committed user has it, which the route answers 500.
SameKey(u, r) == u.email = r.email \/ u.username = r.username
CreateUser(w) ==
    /\ work[w].pc = "checked"
    /\ LET r == work[w].r IN
       /\ \A v \in Workers \ {w} : \A u \in Inserting(v) : ~SameKey(u, r)
       /\ work' = [work EXCEPT ![w] =
                      IF \E u \in db.users : SameKey(u, r)
                      THEN [pc |-> "done", r |-> r, status |-> 500,
                            detail |-> "An unexpected error occurred during registration",
                            created |-> FALSE]
                      ELSE [pc |-> "inserted", r |-> r,
                            user |-> [id |-> GhostId + w, email |-> r.email,
                                      username |-> r.username,
                                      hashed_password |-> get_password_hash(r.password),
                                      role |-> "user", is_active |-> TRUE]]]
    /\ UNCHANGED <<ovars, avars, mcall, rvars, pvars, mapped>>

\* the use case builds the UserResponseDTO and the route returns it, get_db
\* commits; a field the DTO requires and the use case does not pass is a
\* ValidationError, a ValueError: 400, and get_db rolls the insert back
AnswerRegister(w) ==
    /\ work[w].pc = "inserted"
    /\ IF UserResponseDTO \subseteq RegisterResponseArgs
       THEN /\ db' = [db EXCEPT !.users = @ \cup {work[w].user}]
            /\ work' = [work EXCEPT ![w] =
                           [pc |-> "done", r |-> work[w].r, status |-> 201,
                            detail |-> "", created |-> TRUE]]
       ELSE /\ db' = db
            /\ work' = [work EXCEPT ![w] =
                           [pc |-> "done", r |-> work[w].r, status |-> 400,
                            detail |-> "validation error for UserResponseDTO",
                            created |-> FALSE]]
    /\ UNCHANGED <<ovars, ids, now, req, resp, mcall, rvars, pvars, mapped>>

\* the registrations of the concurrent callers
ConcurrentRegistrations ==
    [email : {"new@example.com", "ann@example.com", "admin@pastryjoy.com"},
     username : {"newbie", "ann", "alice"}, password : {PwNew}]

InitConcurrentRegistrations ==
    /\ db = EmptyDb
    /\ ids = FreshIds
    /\ now = 0
    /\ req = Idle /\ resp = Idle
    /\ NewOrder
    /\ NoDomainCalls

NextConcurrentRegistrations ==
    \/ \E w \in Workers, r \in ConcurrentRegistrations : CheckEmail(w, r)
    \/ \E w \in Workers : CheckUsername(w)
    \/ \E w \in Workers : CreateUser(w)
    \/ \E w \in Workers : AnswerRegister(w)

SpecConcurrentRegistrations ==
    InitConcurrentRegistrations /\ [][NextConcurrentRegistrations]_vars

(***************************************************************************)
(* Part 3.  Properties.                                                    *)
(***************************************************************************)
\* a step in which the service answers a request for one of ops
Answers(ops) == resp = Idle /\ resp' # Idle /\ req'.op \in ops

\* C1: Order.confirm() sets the status to confirmed only when the status is
\* pending and the order has at least one item; in every other case it
\* raises an error and leaves the status unchanged.
C1_ConfirmOnlyPendingWithItems ==
    [][ocall'.method = "confirm" =>
          IF ostatus = "pending" /\ Len(oitems) >= 1
          THEN ostatus' = "confirmed" /\ ~ocall'.raised
          ELSE ostatus' = ostatus /\ ocall'.raised]_vars

\* C1: a pending order with an item has been confirmed
C1_Confirmed ==
    /\ ocall.method = "confirm" /\ ~ocall.raised
    /\ ostatus = "confirmed" /\ Len(oitems) >= 1

\* C2: Order.cancel() raises an error and leaves the status unchanged when
\* the status is completed or cancelled; from pending, confirmed or
\* in_progress it sets the status to cancelled.
C2_CancelUnlessTerminal ==
    [][ocall'.method = "cancel" =>
          IF ostatus \in {"completed", "cancelled"}
          THEN ostatus' = ostatus /\ ocall'.raised
          ELSE ostatus' = "cancelled" /\ ~ocall'.raised]_vars

\* C2: cancel() was refused on a completed order
C2_CompletedNotCancelled ==
    /\ ocall.method = "cancel" /\ ocall.raised
    /\ ostatus = "completed"

\* the user a token stands for: the token parses, is signed by the service,
\* has not expired, and its sub is the id of a stored, active user
CallerOf(token) ==
    IF token.kind = "jwt" /\ token.sig = "valid" /\ token.exp >= now
    THEN {u \in db.users : u.id = token.sub /\ u.is_active}
    ELSE {}

\* C3: a status-update request that asks for an invalid transition (any
\* change out of completed or out of cancelled, or a move to confirmed from
\* a status other than pending) is answered with 400 or 409 and leaves the
\* stored status of the order unchanged.
C3_InvalidTransitionRejected ==
    [][\A order \in Rows(db.orders) :
          (/\ Answers({"update_order_status"})
           /\ \E u \in CallerOf(req'.token) : u.role = "admin"
           /\ req'.id = order.id
           /\ req'.status \in OrderStatus \ {order.status}
           /\ \/ order.status \in {"completed", "cancelled"}
              \/ req'.status = "confirmed" /\ order.status # "pending")
          => /\ resp'.status \in {400, 409}
             /\ \E kept \in Rows(db'.orders) :
                   kept.id = order.id /\ kept.status = order.status]_vars

\* the endpoints C4 names
C4_AdminEndpoints ==
    {"create_ingredient", "update_ingredient", "delete_ingredient",
     "create_recipe", "update_recipe", "delete_recipe",
     "create_product", "update_product", "delete_product",
     "update_order_status", "delete_order"}

\* C4: every create, update and delete endpoint for ingredients, recipes and
\* products, and the order status-update and order delete endpoints, answer
\* 403 and change no stored data when the authenticated user's stored role
\* is not admin, whatever role claim the presented token carries.
C4_StoredRoleGatesWrites ==
    [][(/\ Answers(C4_AdminEndpoints)
        /\ \E u \in CallerOf(req'.token) : u.role # "admin")
       => resp'.status = 403 /\ db' = db]_vars

\* C4: a user whose stored role is user presented a token whose role claim
\* is admin to one of the endpoints and got 403
C4_AdminClaimRefused ==
    /\ req.op \in C4_AdminEndpoints
    /\ req.token.kind = "jwt" /\ req.token.role = "admin"
    /\ \E u \in CallerOf(req.token) : u.role = "user"
    /\ resp.status = 403

\* the routes that ask for a bearer token
C5_ProtectedRoutes ==
    C4_AdminEndpoints
    \cup {"get_current_user_info", "list_ingredients", "get_ingredient",
          "list_recipes", "get_recipe", "list_products", "get_product",
          "create_order", "list_orders", "get_order"}

C6_OrdersCreatedBy(user) ==
    {order \in Rows(db.orders) : order.created_by_user_id = user.id}

\* what C6 says of reading one order, whoever asks
C6_GetOrder ==
    Answers({"get_order"})
    => \A u \in CallerOf(req'.token), order \in Rows(db.orders) :
          req'.id = order.id
          => IF u.role = "admin" \/ order.created_by_user_id = u.id
             THEN resp'.status = 200 /\ resp'.body = order
             ELSE resp'.status = 403

\* C6 as stated: a non-admin user's order list is exactly the orders whose
\* created_by_user_id is that user, a non-admin's request for another
\* user's order is answered with 403, and an admin can read every order.
C6_ListIsExactlyOwnOrders ==
    [][/\ C6_GetOrder
       /\ Answers({"list_orders"})
          => \A u \in CallerOf(req'.token) :
                /\ resp'.status = 200
                /\ IF u.role = "admin"
                   THEN Rows(resp'.body) \subseteq Rows(db.orders)
                   ELSE Rows(resp'.body) = C6_OrdersCreatedBy(u)]_vars

\* C6, amended: a non-admin user's order list holds only orders whose
\* created_by_user_id is that user, an admin's list only stored orders; the
\* list is what skip and limit leave of them (each order once, all of them
\* when skip is 0 and limit is not below their number); a non-admin's
\* request for another user's order is answered with 403, for an own order
\* with the order; an admin can read every order.
C6_ListIsPageOfOwnOrders ==
    [][/\ C6_GetOrder
       /\ Answers({"list_orders"})
          => \A u \in CallerOf(req'.token) :
                LET visible == IF u.role = "admin" THEN Rows(db.orders)
                               ELSE C6_OrdersCreatedBy(u)
                    left == Cardinality(visible) - req'.skip
                    size == IF left <= 0 THEN 0 ELSE Min(left, req'.limit)
                IN  /\ resp'.status = 200
                    /\ Rows(resp'.body) \subseteq visible
                    /\ Len(resp'.body) = size
                    /\ Cardinality(Rows(resp'.body)) = size]_vars

\* C6: a non-admin user listed the orders while the table held an order of
\* another user as well as an own one, and got the own one
C6_OwnOrderListed ==
    /\ req.op = "list_orders"
    /\ \E u \in CallerOf(req.token) :
          /\ u.role = "user"
          /\ \E mine, other \in Rows(db.orders) :
                /\ mine.created_by_user_id = u.id
                /\ other.created_by_user_id # u.id
                /\ resp.status = 200
                /\ resp.body = <<mine>>

\* every operation of the API
AllOps == C5_ProtectedRoutes \cup {"register", "login", "get_user_settings",
                                   "update_user_settings"}

\* C7: each request either fully succeeds or is fully rolled back: a request
\* answered with an error changes no stored data, and an order is never
\* stored with only part of its items.
C7_AllOrNothing ==
    [][Answers(AllOps)
       => /\ resp'.status >= 400 => db' = db
          /\ \A order \in Rows(db'.orders) :
                /\ Len(order.items) >= 1
                /\ (req'.op = "create_order" /\ order \notin Rows(db.orders))
                   => order.items = req'.items]_vars

\* C7: an order whose first item names a stored product and whose second
\* item names a missing one was refused, and nothing of it is stored
C7_HalfOrderRolledBack ==
    /\ req.op = "create_order" /\ resp.status = 500
    /\ Len(req.items) = 2
    /\ ById(db.products, req.items[1].product_id) # {}
    /\ ById(db.products, req.items[2].product_id) = {}
    /\ db.orders = <<>>

\* C8: registering with an email already in use is answered with 400 and
\* 'Email already registered'; registering with a username already in use
\* (and an email that is not) with 400 and 'Username already taken'; in
\* both cases no user is created.
C8_DuplicateRegistrationRefused ==
    [][(Answers({"register"}) /\ BodyValid(req'))
       => LET email_used == \E u \in db.users : u.email = req'.email
              name_used == \E u \in db.users : u.username = req'.username
          IN  /\ email_used
                 => /\ resp'.status = 400
                    /\ resp'.detail = "Email already registered"
                    /\ db' = db
              /\ (name_used /\ ~email_used)
                 => /\ resp'.status = 400
                    /\ resp'.detail = "Username already taken"
                    /\ db' = db]_vars

\* C8: a registration with a new email and a username in use was refused
C8_UsernameTaken ==
    /\ req.op = "register"
    /\ \E u \in db.users : u.username = req.username
    /\ ~\E u \in db.users : u.email = req.email
    /\ resp.status = 400 /\ resp.detail = "Username already taken"

\* C9: a registration with a well-formed body, an unused email and an unused
\* username is answered with 201 and creates exactly one user, active and
\* with role user.
C9_ValidRegistrationCreatesUser ==
    [][(/\ Answers({"register"}) /\ BodyValid(req')
        /\ ~\E u \in db.users : u.email = req'.email
        /\ ~\E u \in db.users : u.username = req'.username)
       => /\ resp'.status = 201
          /\ \E u \in db'.users \ db.users :
                /\ db'.users = db.users \cup {u}
                /\ u.email = req'.email /\ u.username = req'.username
                /\ u.role = "user" /\ u.is_active]_vars

\* C10: login returns a token only when the username exists, the password
\* matches the stored hash and the user is active; an unknown username and
\* a wrong password are both answered with 401 and 'Invalid credentials',
\* an inactive user with 401 and no token.
C10_LoginOnlyActiveWithPassword ==
    [][Answers({"login"})
       => LET found == {u \in db.users : u.username = req'.username}
              matching == {u \in found :
                              u.hashed_password = <<"bcrypt", req'.password.head>>}
          IN  /\ db' = db
              /\ resp'.status = 200 <=> \E u \in matching : u.is_active
              /\ resp'.status = 200
                 => /\ resp'.body.kind = "jwt" /\ resp'.body.sig = "valid"
                    /\ \E u \in matching : resp'.body.sub = u.id
              /\ matching = {}
                 => /\ resp'.status = 401
                    /\ resp'.detail = "Invalid credentials"
                    /\ resp'.body = NoBody
              /\ (\E u \in matching : ~u.is_active)
                 => resp'.status = 401 /\ resp'.body = NoBody]_vars

\* C10: the inactive user logged in with the right password and got 401
C10_InactiveRefused ==
    /\ req.op = "login"
    /\ \E u \in db.users :
          /\ u.username = req.username /\ ~u.is_active
          /\ u.hashed_password = <<"bcrypt", req.password.head>>
    /\ resp.status = 401 /\ resp.body = NoBody

\* the sum over the first n items of quantity x unit price, in
\* ten-thousandths
RECURSIVE C11_SumOfLines(_, _)
C11_SumOfLines(items, n) ==
    IF n = 0 THEN 0
    ELSE items[n].quantity * items[n].unit_price.amount
         + C11_SumOfLines(items, n - 1)

C12_LaterWrites ==
    {"create_ingredient", "update_ingredient", "delete_ingredient",
     "create_recipe", "update_recipe", "delete_recipe",
     "create_product", "update_product", "delete_product",
     "update_order_status"}

\* C12: each order item keeps the unit price fixed when the order was
\* created: no later create, update or delete of a product, recipe or
\* ingredient, and no status change of the order, alters the stored unit
\* prices or the total of an existing order.
C12_NoLateRepricing ==
    [][Answers(C12_LaterWrites) =>
          \A old \in Rows(db.orders) :
             \E new \in Rows(db'.orders) :
                /\ new.id = old.id
                /\ Len(new.items) = Len(old.items)
                /\ \A i \in DOMAIN old.items :
                      new.items[i].unit_price = old.items[i].unit_price
                /\ OrderTotal(new) = OrderTotal(old)]_vars

\* C12: the fixed costs of the ordered product were changed and the order
\* was confirmed, and the order still has its prices and its total
C12_PricesKeptAfterUpdates ==
    /\ req.op = "update_order_status" /\ resp.status = 200
    /\ \E p \in Rows(db.products) : p.id = 1 /\ p.fixed_costs = 10
    /\ \E order \in Rows(db.orders) :
          /\ order.id = 1 /\ order.status = "confirmed"
          /\ order.items[1].unit_price = 5 /\ order.items[2].unit_price = 3
          /\ OrderTotal(order) = Money(Units(13), USD)

\* the sum, over the first n entries whose ingredient has a cost, of cost per
\* unit x quantity, in millionths
RECURSIVE C13_SumOfCosts(_, _, _)
C13_SumOfCosts(ingredients, costs, n) ==
    IF n = 0 THEN 0
    ELSE (IF ingredients[n].ingredient_id \in DOMAIN costs
          THEN costs[ingredients[n].ingredient_id].amount * ingredients[n].quantity
          ELSE 0)
         + C13_SumOfCosts(ingredients, costs, n - 1)

\* every entry of the list has a positive quantity
PositiveQuantities(ingredients) ==
    \A i \in DOMAIN ingredients : ingredients[i].quantity > 0

RECURSIVE C14_SumOfRecipes(_, _, _)
C14_SumOfRecipes(recipes, costs, n) ==
    IF n = 0 THEN 0
    ELSE (IF recipes[n].recipe_id \in DOMAIN costs
          THEN costs[recipes[n].recipe_id].amount * recipes[n].quantity
          ELSE 0)
         + C14_SumOfRecipes(recipes, costs, n - 1)

C15_OneQuantityRaised(old, new) ==
    /\ Len(new) = Len(old)
    /\ \E k \in DOMAIN old :
          /\ new[k].ingredient_id = old[k].ingredient_id
          /\ new[k].quantity > old[k].quantity
          /\ \A j \in DOMAIN old : j # k => new[j] = old[j]

\* C15: for a fixed map of ingredient costs, raising the quantity of any one
\* ingredient of a recipe (everything else unchanged) never lowers the
\* recipe cost.
C15_CostMonotoneInQuantity ==
    [][(PositiveQuantities(ringredients)
        /\ C15_OneQuantityRaised(ringredients, ringredients'))
       => \A costs \in CostMaps(IngredientIds, UnitCosts) :
             LET before == Recipe_calculate_cost(ringredients, costs)
                 after == Recipe_calculate_cost(ringredients', costs)
             IN  /\ ~before.raised /\ ~after.raised
                 /\ after.amount >= before.amount]_vars

\* C15: the positive quantity of an ingredient has been raised, and for some
\* costs the recipe now costs more than before
C15_QuantityRaised ==
    /\ rcall.method = "update_ingredient_quantity" /\ ~rcall.raised
    /\ rcall.replaced > 0 /\ rcall.quantity > rcall.replaced
    /\ PositiveQuantities(ringredients)
    /\ \E costs \in CostMaps(IngredientIds, UnitCosts) :
          LET i == FirstIndex(ringredients, rcall.ingredient_id)
              was == [ringredients EXCEPT ![i].quantity = rcall.replaced]
          IN  Recipe_calculate_cost(ringredients, costs).amount
                > Recipe_calculate_cost(was, costs).amount

\* C16: adding or subtracting two Money values with different currencies
\* always raises an error and yields no result; with equal currencies the
\* result has that currency and an amount exactly equal to the decimal sum
\* or difference.
C16_SameCurrencyArithmetic ==
    mcall.op \in {"add", "sub"} =>
        LET amount == IF mcall.op = "add"
                      THEN mcall.self.amount + mcall.other.amount
                      ELSE mcall.self.amount - mcall.other.amount
        IN  IF mcall.self.currency # mcall.other.currency
            THEN mcall.result.raised
            ELSE IF amount >= 0
            THEN mcall.result = [raised |-> FALSE, amount |-> amount,
                                 currency |-> mcall.self.currency]
            ELSE mcall.result.raised

\* C16: two amounts in different currencies were added, and the addition
\* raised
C16_MixedCurrenciesRefused ==
    /\ mcall.op = "add"
    /\ mcall.self.currency = USD /\ mcall.other.currency = EUR
    /\ mcall.self.amount > 0 /\ mcall.other.amount > 0
    /\ mcall.result = Raised("Cannot add money with different currencies")

\* C17: every Money value has amount >= 0: construction with a negative
\* amount, a subtraction whose result would be negative, and a
\* multiplication or division that would give a negative amount all raise
\* an error instead of producing a value.
C17_AmountNeverNegative ==
    /\ (mcall.op # "none" /\ ~mcall.result.raised) => mcall.result.amount >= 0
    /\ (mcall.op = "Money" /\ mcall.amount < 0) => mcall.result.raised
    /\ (mcall.op = "sub" /\ mcall.self.amount < mcall.other.amount)
          => mcall.result.raised
    /\ (mcall.op \in {"mul", "truediv"} /\ mcall.self.amount > 0 /\ mcall.other < 0)
          => mcall.result.raised

\* C17: a positive amount was multiplied by a negative number, and the
\* multiplication raised
C17_NegativeProductRefused ==
    /\ mcall.op = "mul"
    /\ mcall.self.amount > 0 /\ mcall.other < 0
    /\ mcall.result = Raised("Money amount cannot be negative")

\* a currency string of three capital letters
C18_Letters ==
    {"A", "B", "C", "D", "E", "F", "G", "H", "I", "J", "K", "L", "M",
     "N", "O", "P", "Q", "R", "S", "T", "U", "V", "W", "X", "Y", "Z"}
C18_ThreeLetterCode(currency) ==
    Len(currency) = 3 /\ \A i \in 1..3 : currency[i] \in C18_Letters

\* C18: every Money value has a currency that is a 3-letter code;
\* constructing a Money with any other currency string is rejected.
C18_CurrencyIsThreeLetterCode ==
    /\ (mcall.op # "none" /\ ~mcall.result.raised)
          => C18_ThreeLetterCode(mcall.result.currency)
    /\ (mcall.op = "Money" /\ ~C18_ThreeLetterCode(mcall.currency))
          => mcall.result.raised

\* C19: after any sequence of add_ingredient, update_ingredient_quantity and
\* remove_ingredient calls on a recipe, every ingredient entry of the recipe
\* has quantity > 0; a call that would give an entry a quantity <= 0 raises
\* an error and changes nothing.
C19_QuantitiesStayPositive ==
    [][/\ PositiveQuantities(ringredients')
       /\ (/\ rcall'.method \in {"add_ingredient", "update_ingredient_quantity"}
           /\ rcall'.quantity <= 0)
             => (rcall'.raised /\ ringredients' = ringredients)]_vars

C27_ConfirmedHasItems ==
    ostatus = "confirmed" => Len(oitems) >= 1

\* the status changes the Order methods may make
C29_Changes ==
    {<<"pending", "confirmed">>, <<"pending", "cancelled">>,
     <<"confirmed", "cancelled">>}

\* C29: starting from a new (pending) order and using only the Order
\* methods add_item, remove_item, confirm and cancel, the status is only
\* ever pending, confirmed or cancelled, it changes at most twice, and once
\* it is cancelled it never changes again.  (Every change is a step along
\* pending -> confirmed -> cancelled, which has no way back and two steps
\* at most.)
C29_StatusOnlyMovesForward ==
    [][/\ ostatus' \in {"pending", "confirmed", "cancelled"}
       /\ ostatus' # ostatus => <<ostatus, ostatus'>> \in C29_Changes
       /\ ostatus = "cancelled" => ostatus' = "cancelled"]_vars

\* C29: confirm was called on a cancelled order that has an item; it raised
\* and the order is still cancelled
C29_CancelledStays ==
    /\ ostatus = "cancelled" /\ Len(oitems) >= 1
    /\ ocall.method = "confirm" /\ ocall.raised

\* the ids of the users whose stored role is admin
C30_Admins(d) == {u.id : u \in {v \in d.users : v.role = "admin"}}

C24_Table(op) ==
    CASE op = "delete_ingredient" -> "ingredients"
      [] op = "delete_recipe" -> "recipes"
      [] op = "delete_product" -> "products"
      [] op = "delete_order" -> "orders"

\* C24: deleting an existing record removes it (a later get of its id
\* answers 404, and deleting an order also removes that order's items) and
\* leaves every other record unchanged; deleting an id that does not exist
\* answers 404 and changes nothing.
C24_DeleteRemovesOr404 ==
    [][(Answers({"delete_ingredient", "delete_recipe", "delete_product",
                 "delete_order"})
        /\ resp'.status \notin {401, 403})
       => LET t == C24_Table(req'.op) IN
          IF ById(db[t], req'.id) # {}
          THEN /\ resp'.status = 204
               /\ Rows(db'[t]) = Rows(db[t]) \ ById(db[t], req'.id)
               /\ \A k \in DOMAIN db : k # t => db'[k] = db[k]
          ELSE resp'.status = 404 /\ db' = db]_vars

\* the request would leave two stored ingredients with the same name
C25_NameInUse(d, r) ==
    \E row \in Rows(d.ingredients) :
       /\ row.name = r.name
       /\ r.op = "update_ingredient" => row.id # r.id

\* C25: after any sequence of ingredient create and update requests no two
\* stored ingredients share a name; a request that would give an ingredient
\* a name already used by another stored ingredient is answered 409 and
\* stores nothing.
C25_DuplicateNameAnswered409 ==
    [][/\ \A a, b \in Rows(db'.ingredients) : a.name = b.name => a.id = b.id
       /\ (/\ Answers({"create_ingredient", "update_ingredient"})
           /\ resp'.status \notin {401, 403, 404, 422}
           /\ C25_NameInUse(db, req'))
             => (resp'.status = 409 /\ db' = db)]_vars

\* C21: taking an Ingredient, a Recipe with its ingredients, a Product with
\* its recipes, an Order with its items or a User with its language setting
\* to its storage representation and back gives an entity equal to the
\* original in every field.
C21_RoundTripReproducesEntity ==
    mapped # NoMapping => mapped.back = mapped.entity


\* C22: a user's language preference is 'en' until changed; once the user
\* changes it to L (PATCH /api/users/me/settings) the request is answered
\* with L and every later read of the user's settings (GET
\* /api/users/me/settings, GET /api/auth/me) answers with the stored
\* language.  Stated on the answers: a settings request, or a read of the
\* own account, by an authenticated user is answered 200; the answer to the
\* PATCH carries the language it was sent, the answer to a read a supported
\* language.
C22_Authenticated == get_current_user(db, req'.token, now).status = 200
C22_LanguagePreferenceKept ==
    [][/\ (Answers({"update_user_settings"}) /\ C22_Authenticated)
            => /\ resp'.status = 200
               /\ resp'.body.preferred_language = req'.preferred_language
       /\ (Answers({"get_user_settings"}) /\ C22_Authenticated)
            => /\ resp'.status = 200
               /\ resp'.body.preferred_language \in SupportedLanguage
       /\ (Answers({"get_current_user_info"}) /\ C22_Authenticated)
            => /\ resp'.status = 200
               /\ resp'.body.settings.preferred_language \in SupportedLanguage]_vars


\* C23: an update of a product that supplies a recipe list, or of a recipe
\* that supplies an ingredient list, stores exactly the supplied list: the
\* stored product or recipe, which a later read returns, holds the entries
\* of the request and no others.
C23_Stored(d, r) ==
    IF r.op = "update_product"
    THEN (CHOOSE row \in ById(d.products, r.id) : TRUE).recipes
    ELSE (CHOOSE row \in ById(d.recipes, r.id) : TRUE).ingredients
C23_SuppliedListStored ==
    [][(/\ Answers({"update_product", "update_recipe"})
        /\ resp'.status = 200
        /\ "entries" \in DOMAIN req')
           => C23_Stored(db', req') = req'.entries]_vars


\* C26: when two update requests run concurrently on the same product and
\* each supplies a different subset of fields, the stored product is the one
\* the two requests leave when run one after the other: every field a
\* request supplied holds the value that request gave it.
C26_BothAnswered == \A w \in Workers : work[w].pc = "done" /\ work[w].status = 200
C26_BothChangesKept ==
    (/\ C26_BothAnswered
     /\ \A w \in Workers : Supplied(work[w].r) # {}
     /\ Supplied(work[1].r) \cap Supplied(work[2].r) = {})
       => \A w \in Workers :
             LET stored == CHOOSE x \in ById(db.products, work[w].r.id) : TRUE
             IN  AssignSupplied(stored, work[w].r) = stored


\* C28: when two registrations with the same email or the same username
\* run concurrently (neither email nor username is registered yet), exactly
\* one of them creates a user and the other is answered 400 as a
\* duplicate, under every interleaving; no two stored users share an email
\* or a username.
C28_Racing ==
    /\ \A w \in Workers : work[w].pc = "done"
    /\ SameKey(work[1].r, work[2].r)
    /\ \A w \in Workers : \A u \in SeedUsers : ~SameKey(u, work[w].r)
C28_ExactlyOneRegisters ==
    /\ \A a, b \in db.users : SameKey(a, b) => a = b
    /\ C28_Racing =>
          \E w \in Workers :
             /\ work[w].status = 201 /\ work[w].created
             /\ \E u \in db.users : u.email = work[w].r.email
                                     /\ u.username = work[w].r.username
             /\ \A v \in Workers \ {w} : work[v].status = 400 /\ ~work[v].created

====
